---- MODULE Spec2Model ----
(***************************************************************************)
(* Verification model of elbimsalem/CryptoTrader_Agents.                   *)
(*                                                                         *)
(*   SpecLedger : PortfolioSimulator (portfolio_simulator.py), the virtual *)
(*                trading account: buy, sell, persistence.                 *)
(*   SpecSched  : SmartScheduler.run_continuous (smart_scheduler.py) and   *)
(*                its subclass TestModeScheduler.run_test_simulation       *)
(*                (test_mode_main.py), the adaptive analysis loop.         *)
(*   SpecRetry  : CrewRetryHandler.execute_with_retry (autonomous_crew.py) *)
(*                and RetryableChatOpenAI._generate_content                *)
(*                (ionos_llm.py), the two retry loops.                     *)
(*   SpecReports: PortfolioSimulator with daily reports, days and the      *)
(*                restart of the process from the persisted files.         *)
(*   SpecAccount: the account behind PortfolioSimulatorTool                *)
(*                (tools/portfolio_simulator_tool.py): validated orders,   *)
(*                valuation, reset, an interrupt during a save, restart.   *)
(*   SpecThreads: two threads executing orders on one PortfolioSimulator.  *)
(*                                                                         *)
(* Units.  Python floats are modelled by integers and `/` by \div:         *)
(*   money     : integer money units (1 unit = 1/100 cent);                *)
(*   quantity  : integer quantity units of 5e-7 coin, so that the code's   *)
(*               negligible amount 0.000001 is Epsilon = 2 units;          *)
(*   price     : money units per quantity unit;                            *)
(*   fee rate  : a rational <<num, den>>;                                  *)
(*   time      : whole minutes since a Monday 00:00 (local time).          *)
(***************************************************************************)
EXTENDS Integers, Sequences, FiniteSets, TLC

VARIABLES
    \* ---- PortfolioSimulator ----
    initial_balance,   \* self.initial_balance
    current_balance,   \* self.current_balance
    trading_fee,       \* self.trading_fee, <<num, den>>
    positions,         \* self.positions: symbol -> Position, a partial function
    trades,            \* self.trades: sequence of Trade
    daily_reports,     \* self.daily_reports: sequence of DailyReport
    files,             \* the three persisted JSON files
    call,              \* the last request made to the ledger (with the total, for a valuation)
    ret,               \* what that request returned or raised
    today,             \* datetime.now().date(), a day number
    start_date,        \* self.start_date
    last_report_date,  \* self.last_report_date
    save_error,        \* whether the last _save_portfolio_state logged an error
    stop_signal,       \* whether a process interrupt is on its way to the ledger's process
    \* ---- SmartScheduler / TestModeScheduler ----
    scheduler,         \* the class of the running scheduler
    now,               \* datetime.now(), in minutes
    pc,                \* position of the loop
    last_analysis,     \* self.last_analysis: level value -> time, a partial function
    token_usage_today, \* self.token_usage_today
    market_condition,  \* the MarketCondition assessed on this tick
    fetch_outcome,     \* what the fetch of market signals did on this tick
    analysis_level,    \* the level determined on this tick
    result,            \* the recorded outcome of the last tick: the dict returned by
                       \* execute_analysis, or the error logged by the loop
    runner_outcome,    \* what the AnalysisRunner did on the last tick
    start_time,        \* when the loop was entered
    end_time,          \* run_test_simulation's end_time
    interrupted,       \* whether a KeyboardInterrupt, the stop signal, was raised in the loop
    \* ---- CrewRetryHandler / RetryableChatOpenAI ----
    handler,           \* the class whose retry loop runs
    max_retries,       \* self.max_retries
    base_delay,        \* self.base_delay, in milliseconds
    max_delay,         \* self.max_delay, in milliseconds
    attempt,           \* the loop variable `attempt`
    rpc,               \* position of the retry loop
    events,            \* what the loop did so far: calls of the operation and sleeps
    last_error,        \* the local last_error
    retry_result,      \* what the loop gave its caller: a result or a raised error
    \* ---- threads that share one PortfolioSimulator ----
    threads,           \* thread -> the order it executes and where it is in it
    \* ---- BinanceRapidApiTool ----
    tool_call,         \* the last call of _run: action, parameters, the server's answer
    tool_result,       \* what that call gave its caller: a string, or a raised error
    tool_requests,     \* the HTTP requests issued by requests.get so far
    \* ---- the crews of test mode ----
    other_ledger,      \* the second PortfolioSimulator if there is one: the instance
                       \* whose tool is not the one in use
    clock,             \* datetime.now() within the day, in whole seconds
    \* ---- the scheduler's loop, observed ----
    ticks              \* the iterations of the loop that were begun

ledger_vars == <<initial_balance, current_balance, trading_fee, positions, trades,
                 daily_reports, files, call, ret, today, start_date,
                 last_report_date, save_error, stop_signal>>
sched_vars == <<scheduler, now, pc, last_analysis, token_usage_today,
                market_condition, fetch_outcome, analysis_level, result, runner_outcome,
                start_time, end_time, interrupted>>
retry_vars == <<handler, max_retries, base_delay, max_delay, attempt, rpc, events,
                last_error, retry_result>>
thread_vars == <<threads>>
binance_vars == <<tool_call, tool_result, tool_requests>>
crew_vars == <<other_ledger, clock>>
tick_vars == <<ticks>>
vars == <<initial_balance, current_balance, trading_fee, positions, trades,
          daily_reports, files, call, ret, today, start_date,
          last_report_date, save_error, stop_signal,
          scheduler, now, pc, last_analysis, token_usage_today,
          market_condition, fetch_outcome, analysis_level, result, runner_outcome,
          start_time, end_time, interrupted,
          handler, max_retries, base_delay, max_delay, attempt, rpc, events,
          last_error, retry_result, threads,
          tool_call, tool_result, tool_requests, other_ledger, clock, ticks>>

(***************************************************************************)
(*                         PortfolioSimulator                              *)
(***************************************************************************)

\* Bounds of the ledger model.
MaxTrades == 2

\* `position.quantity <= 0.000001`, in quantity units of 5e-7.
Epsilon == 2

Symbols == {"BTCUSDT", "ETHUSDT"}
InitialBalances == {0, 100000}
FeeRates == {<<0, 1>>, <<1, 10>>}
UsdAmounts == {10000, 60000}
Prices == {200, 300}
Quantities == {43, 44}

\* A file that does not exist.
NoFile == [exists |-> FALSE]

\* self.last_report_date = None
NoDate == -1

\* date.isoformat() / datetime.isoformat(), and datetime.fromisoformat(s).date()
IsoFormat(d) == <<"iso", d>>
FromIsoFormat(s) == s[2]

\* fee = amount * self.trading_fee
Fee(amount, rate) == (amount * rate[1]) \div rate[2]

\* How many of the three files _save_portfolio_state gets written before an
\* exception, if any, ends it.
SaveOutcomes == 0..3

\* A save that writes the balance the ledger had before the operation.
SaveState_Mut(bal, pos, trs, reps, n) ==
    [portfolio |-> IF n >= 1
                   THEN [exists |-> TRUE,
                         current_balance |-> current_balance,
                         initial_balance |-> initial_balance,
                         start_date |-> IsoFormat(start_date),
                         positions |-> pos]
                   ELSE files.portfolio,
     trades    |-> IF n >= 2
                   THEN [exists |-> TRUE,
                         data |-> [i \in 1..Len(trs) |->
                                     [trs[i] EXCEPT !.timestamp = IsoFormat(@)]]]
                   ELSE files.trades,
     reports   |-> IF n >= 3 THEN [exists |-> TRUE, data |-> reps]
                             ELSE files.reports]

\* _save_portfolio_state: the three files are written in order inside one try;
\* an exception (n < 3 files written) is logged and swallowed.  Trade.to_dict
\* writes the timestamp in ISO format.
SaveState(bal, pos, trs, reps, n) ==
    [portfolio |-> IF n >= 1
                   THEN [exists |-> TRUE,
                         current_balance |-> bal,
                         initial_balance |-> initial_balance,
                         start_date |-> IsoFormat(start_date),
                         positions |-> pos]
                   ELSE files.portfolio,
     trades    |-> IF n >= 2
                   THEN [exists |-> TRUE,
                         data |-> [i \in 1..Len(trs) |->
                                     [trs[i] EXCEPT !.timestamp = IsoFormat(@)]]]
                   ELSE files.trades,
     reports   |-> IF n >= 3 THEN [exists |-> TRUE, data |-> reps]
                             ELSE files.reports]

\* PortfolioSimulator.__init__ with no persisted files present.
LedgerInit ==
    /\ initial_balance \in InitialBalances
    /\ current_balance = initial_balance
    /\ trading_fee \in FeeRates
    /\ positions = <<>>
    /\ trades = <<>>
    /\ daily_reports = <<>>
    /\ files = [portfolio |-> NoFile, trades |-> NoFile, reports |-> NoFile]
    /\ call = [op |-> "init"]
    /\ ret = "None"
    /\ today = 0
    /\ start_date = today
    /\ last_report_date = NoDate
    /\ save_error = FALSE
    /\ stop_signal = FALSE

\* A funds check that only asks for some cash to be left.
InsufficientBalance_Mut(usd_amount) == current_balance <= 0

\* `if self.current_balance < usd_amount: return None`
InsufficientBalance(usd_amount) == current_balance < usd_amount

\* A buy that takes the mean of the two prices for the average price.
PositionAfterBuy_Mut(symbol, quantity, net_amount, current_price) ==
    IF symbol \in DOMAIN positions
    THEN LET position == positions[symbol]
             total_cost == position.total_cost + net_amount
             total_quantity == position.quantity + quantity
         IN  [position EXCEPT !.avg_price = (position.avg_price + current_price) \div 2,
                              !.quantity = total_quantity,
                              !.total_cost = total_cost]
    ELSE [quantity |-> quantity,
          avg_price |-> current_price,
          total_cost |-> net_amount,
          current_price |-> current_price,
          current_value |-> quantity * current_price,
          unrealized_pnl |-> 0]

\* The Position after a buy of `quantity` for `net_amount` at `current_price`.
PositionAfterBuy(symbol, quantity, net_amount, current_price) ==
    IF symbol \in DOMAIN positions
    THEN LET position == positions[symbol]
             total_cost == position.total_cost + net_amount
             total_quantity == position.quantity + quantity
         IN  [position EXCEPT !.avg_price = total_cost \div total_quantity,
                              !.quantity = total_quantity,
                              !.total_cost = total_cost]
    ELSE [quantity |-> quantity,
          avg_price |-> current_price,
          total_cost |-> net_amount,
          current_price |-> current_price,
          current_value |-> quantity * current_price,
          unrealized_pnl |-> 0]

\* The map d with d[k] = v.
Put(d, k, v) == [x \in (DOMAIN d) \cup {k} |-> IF x = k THEN v ELSE d[x]]
\* The map d without key k.
Del(d, k) == [x \in (DOMAIN d) \ {k} |-> d[x]]

\* A file that was opened for writing (and so truncated) and whose json.dump
\* did not finish: json.load raises on it.
TornFile == [exists |-> TRUE, torn |-> TRUE]
Torn(file) == file = TornFile

\* The order in which _save_portfolio_state writes the files.
FileOrder == <<"portfolio", "trades", "reports">>

\* The files when the process is interrupted inside _save_portfolio_state
\* after n files were written; `torn` tells whether the next one was open.
InterruptedSave(bal, pos, trs, reps, n, torn) ==
    LET written == SaveState(bal, pos, trs, reps, n)
    IN  IF torn /\ n < 3
        THEN [written EXCEPT ![FileOrder[n + 1]] = TornFile]
        ELSE written

\* A save whose exception reaches the operation that called it.
SaveRaises_Mut(n) == n < 3

\* Whether an exception inside _save_portfolio_state reaches its caller:
\* `except Exception as e: logger.error(...)` keeps every one of them.
SaveRaises(n) == FALSE

\* The end of a mutating operation: `self._save_portfolio_state()` and the
\* return of `value`.  An exception of the caller's try block makes the
\* operation return None.  A KeyboardInterrupt is no Exception: it passes
\* every handler of the ledger and ends the process.
SaveAndReturn(bal, pos, trs, reps, value) ==
    IF stop_signal
    THEN \E written \in SaveOutcomes, torn \in BOOLEAN :
            /\ files' = InterruptedSave(bal, pos, trs, reps, written, torn)
            /\ ret' = "KeyboardInterrupt"
            /\ stop_signal' = FALSE
            /\ UNCHANGED save_error
    ELSE \E written \in SaveOutcomes :
            /\ files' = SaveState(bal, pos, trs, reps, written)
            /\ save_error' = (written < 3)
            /\ ret' = IF SaveRaises(written) THEN "None" ELSE value
            /\ UNCHANGED stop_signal

\* trade_id = f"BUY_{symbol}_{datetime.now().strftime('%Y%m%d_%H%M%S')}" and the
\* same with SELL: side, symbol, and the time to the second.
TradeId(side, symbol, day, second) == <<side, symbol, day, second>>

\* A quantity bought for the whole amount, the fee not taken off.
BuyQuantity_Mut(usd_amount, fee, current_price) == usd_amount \div current_price

\* net_amount = usd_amount - fee; quantity = net_amount / current_price
BuyQuantity(usd_amount, fee, current_price) == (usd_amount - fee) \div current_price

\* execute_buy_order(symbol, usd_amount, current_price)
ExecuteBuyOrder(symbol, usd_amount, current_price) ==
    LET fee == Fee(usd_amount, trading_fee)
        net_amount == usd_amount - fee
    IN
    /\ call' = [op |-> "buy", symbol |-> symbol, amount |-> usd_amount,
                price |-> current_price]
    /\ IF InsufficientBalance(usd_amount)
       THEN /\ ret' = "None"
            /\ UNCHANGED <<current_balance, positions, trades, files, save_error,
                           stop_signal>>
       ELSE LET quantity == BuyQuantity(usd_amount, fee, current_price)
                trade == [trade_id |-> TradeId("BUY", symbol, today, clock),
                          timestamp |-> today, side |-> "BUY", symbol |-> symbol,
                          quantity |-> quantity, price |-> current_price,
                          value |-> usd_amount, fee |-> fee]
                balance2 == current_balance - usd_amount
                positions2 == Put(positions, symbol,
                                  PositionAfterBuy(symbol, quantity, net_amount,
                                                   current_price))
                trades2 == Append(trades, trade)
            IN  /\ Len(trades) < MaxTrades
                /\ current_balance' = balance2
                /\ positions' = positions2
                /\ trades' = trades2
                /\ SaveAndReturn(balance2, positions2, trades2, daily_reports,
                                 "Trade")
    /\ UNCHANGED <<initial_balance, trading_fee, daily_reports, today, start_date,
                   last_report_date>>

\* `if symbol not in self.positions: return None`
NoPosition(symbol) == symbol \notin DOMAIN positions

\* A quantity check that only refuses to sell from an empty position.
InsufficientQuantity_Mut(symbol, quantity) == positions[symbol].quantity <= 0

\* `if position.quantity < quantity: return None`
InsufficientQuantity(symbol, quantity) == positions[symbol].quantity < quantity

\* Proceeds from which the fee is not taken.
NetProceeds_Mut(gross_proceeds, fee) == gross_proceeds

\* net_proceeds = gross_proceeds - fee
NetProceeds(gross_proceeds, fee) == gross_proceeds - fee

\* A position that is closed only when nothing is left of it.
NegligibleQuantity_Mut(quantity) == quantity <= 0

\* `if position.quantity <= 0.000001`, evaluated after the quantity was reduced.
NegligibleQuantity(quantity) == quantity <= Epsilon

\* execute_sell_order(symbol, quantity, current_price)
ExecuteSellOrder(symbol, quantity, current_price) ==
    /\ call' = [op |-> "sell", symbol |-> symbol, amount |-> quantity,
                price |-> current_price]
    /\ IF NoPosition(symbol) \/ InsufficientQuantity(symbol, quantity)
       THEN /\ ret' = "None"
            /\ UNCHANGED <<current_balance, positions, trades, files, save_error,
                           stop_signal>>
       ELSE LET position == positions[symbol]
                gross_proceeds == quantity * current_price
                fee == Fee(gross_proceeds, trading_fee)
                net_proceeds == NetProceeds(gross_proceeds, fee)
                trade == [trade_id |-> TradeId("SELL", symbol, today, clock),
                          timestamp |-> today, side |-> "SELL", symbol |-> symbol,
                          quantity |-> quantity, price |-> current_price,
                          value |-> gross_proceeds, fee |-> fee]
                remaining == position.quantity - quantity
                balance2 == current_balance + net_proceeds
                positions2 ==
                    IF NegligibleQuantity(remaining)
                    THEN Del(positions, symbol)
                    ELSE Put(positions, symbol,
                             [position EXCEPT
                                !.quantity = remaining,
                                !.total_cost = (position.total_cost * remaining)
                                                  \div (remaining + quantity)])
                trades2 == Append(trades, trade)
            IN  /\ Len(trades) < MaxTrades
                /\ current_balance' = balance2
                /\ positions' = positions2
                /\ trades' = trades2
                /\ SaveAndReturn(balance2, positions2, trades2, daily_reports,
                                 "Trade")
    /\ UNCHANGED <<initial_balance, trading_fee, daily_reports, today, start_date,
                   last_report_date>>

\* The quantities a caller may ask to sell: fixed ones, and ones read off the position.
SellQuantities(symbol) ==
    Quantities \cup
    (IF symbol \in DOMAIN positions
     THEN {positions[symbol].quantity, positions[symbol].quantity + 1}
     ELSE {})

Buy ==
    \E symbol \in Symbols, usd_amount \in UsdAmounts, current_price \in Prices :
        ExecuteBuyOrder(symbol, usd_amount, current_price)

Sell ==
    \E symbol \in Symbols, current_price \in Prices :
        \E quantity \in SellQuantities(symbol) :
            ExecuteSellOrder(symbol, quantity, current_price)

\* The threads that call one PortfolioSimulator, where the model has them.
Threads == {1, 2}

\* No thread calls the ledger: its operations run one after the other.
ThreadsIdle == threads = [t \in Threads |-> [pc |-> "idle"]]

\* No call of the Binance tool was made.
NoCall == [action |-> "none"]

\* The Binance tool is not called outside its own specification.
BinanceIdle ==
    /\ tool_call = NoCall
    /\ tool_result = [raised |-> FALSE, text |-> <<>>]
    /\ tool_requests = <<>>

\* No second PortfolioSimulator was made.
NoLedger == [exists |-> FALSE]

\* One PortfolioSimulator exists, and the clock stands within one second.
CrewIdle ==
    /\ other_ledger = NoLedger
    /\ clock = 0

\* No iteration of the scheduler's loop was begun, or none is counted.
TicksIdle == ticks = 0

\* The scheduler does not run in the ledger's specification.
SchedIdle ==
    /\ scheduler = "none"
    /\ now = 0
    /\ pc = "idle"
    /\ last_analysis = <<>>
    /\ token_usage_today = 0
    /\ market_condition = [unusual_activity |-> FALSE]
    /\ fetch_outcome = "none"
    /\ analysis_level = "none"
    /\ result = [level |-> "none"]
    /\ runner_outcome = "none"
    /\ start_time = 0
    /\ end_time = 0
    /\ interrupted = FALSE

NoError == [error |-> "none", attempt |-> -1]
NoReturn == [kind |-> "none"]

\* No retry loop runs in the ledger's and the scheduler's specifications.
RetryIdle ==
    /\ handler = "none"
    /\ max_retries = 0
    /\ base_delay = 0
    /\ max_delay = 0
    /\ attempt = 0
    /\ rpc = "idle"
    /\ events = <<>>
    /\ last_error = NoError
    /\ retry_result = NoReturn

InitLedger == LedgerInit /\ SchedIdle /\ RetryIdle /\ ThreadsIdle /\ BinanceIdle /\ CrewIdle /\ TicksIdle

NextLedger ==
    \/ Buy /\ UNCHANGED <<sched_vars, retry_vars, thread_vars, binance_vars, crew_vars, tick_vars>>
    \/ Sell /\ UNCHANGED <<sched_vars, retry_vars, thread_vars, binance_vars, crew_vars, tick_vars>>

SpecLedger == InitLedger /\ [][NextLedger]_vars

(***************************************************************************)
(*                      Properties of the ledger                           *)
(***************************************************************************)

\* C1: a buy whose usd_amount exceeds the cash balance returns None and leaves
\* the cash balance, every position, the trade log and the report log (and the
\* persisted files) exactly as they were.
C1_RejectedBuyChangesNothing ==
    [][(call'.op = "buy" /\ call'.amount > current_balance)
         => /\ ret' = "None"
            /\ UNCHANGED <<current_balance, positions, trades, daily_reports,
                           files>>]_vars

\* A buy was refused on a ledger that already holds a position and a trade.
C1_Witness ==
    /\ call.op = "buy"
    /\ call.amount > current_balance
    /\ ret = "None"
    /\ trades # <<>>
    /\ positions # <<>>

\* C2: a sell for a symbol without a position, or for more than the position
\* holds, returns None and leaves the positions, the cash balance and the trade
\* log unchanged; the state being unchanged, the same sell is refused again.
C2_RejectedSellChangesNothing ==
    [][(/\ call'.op = "sell"
        /\ \/ call'.symbol \notin DOMAIN positions
           \/ positions[call'.symbol].quantity < call'.amount)
         => /\ ret' = "None"
            /\ UNCHANGED <<current_balance, positions, trades>>
            /\ \/ call'.symbol \notin DOMAIN positions'
               \/ positions'[call'.symbol].quantity < call'.amount]_vars

\* A sell of more than the held quantity of an open position was refused.
C2_Witness ==
    /\ call.op = "sell"
    /\ ret = "None"
    /\ call.symbol \in DOMAIN positions
    /\ positions[call.symbol].quantity < call.amount

\* C3: the cash balance is never negative.
C3_CashNonNegative == current_balance >= 0

\* Cash was spent by a buy and returned by a sell, and a later order was refused.
C3_Witness ==
    /\ \E i \in DOMAIN trades : trades[i].side = "BUY"
    /\ \E i \in DOMAIN trades : trades[i].side = "SELL"
    /\ call.op \in {"buy", "sell"}
    /\ ret = "None"
    /\ current_balance < initial_balance

(***************************************************************************)
(*               SmartScheduler and TestModeScheduler                      *)
(***************************************************************************)

\* Bound of the scheduler model: the loop is followed for Horizon minutes.
Horizon == 8

\* ScheduleConfig, with the intervals (minutes) of a run started with
\* --monitor-interval 1 --quick-interval 2 --medium-interval 4 --full-interval 6.
monitor_interval == 1
quick_scan_interval == 2
medium_analysis_interval == 4
full_analysis_interval == 6
\* Thresholds, in thousandths: 0.05, 0.30, 0.03.
high_volatility_threshold == 50
volume_surge_threshold == 300
significant_price_change == 30
active_hours_start == 6
active_hours_end == 22
\* weekend_scale_factor = 1.5, as <<num, den>>.
weekend_scale_factor == <<3, 2>>

\* run_continuous(max_daily_tokens) / run_test_simulation(max_daily_tokens).
max_daily_tokens == 27000

\* AnalysisLevel values.
Levels == {"monitor", "quick", "medium", "full"}

Schedulers == {"SmartScheduler", "TestModeScheduler"}

\* datetime.min, the default of self.last_analysis.get(level, datetime.min).
datetime_min == -100000000

\* Monday 05:57, 12:00 and 22:57, Friday 23:55, Sunday 23:55.
StartTimes == {357, 720, 1377, 7195, 10075}

\* run_test_simulation(duration_days).
DurationDays == {0, 1}

\* now.weekday(), now.hour, now.minute and the calendar day.
Weekday(t) == (t \div 1440) % 7
Hour(t) == (t \div 60) % 24
Minute(t) == t % 60
DayOf(t) == t \div 1440

\* What get_top_symbols can lead to: <<avg_volatility, volume_change_pct,
\* avg_price_change>> in thousandths (|avg_price_change| <= avg_volatility).
MarketSamples ==
    { <<20, 0, 0>>, <<50, 300, 30>>, <<60, 0, 10>>, <<40, 310, 0>>,
      <<40, -310, 0>>, <<40, 0, -35>> }

\* What the fetch of market signals can do.
FetchOutcomes == {"ok", "error", "empty", "exception"}

Abs(x) == IF x < 0 THEN -x ELSE x

\* _default_market_condition
DefaultMarketCondition ==
    [volatility_24h |-> 20, volume_change |-> 0, price_change |-> 0,
     unusual_activity |-> FALSE]

\* get_market_conditions without its `if not symbols` return: with no symbols
\* the averages are 0, total_volume is 0 and the change against the previous
\* volume is -100%, a volume surge.
GetMarketConditions_Mut(fetch, sample) ==
    IF fetch \in {"error", "exception"}
    THEN DefaultMarketCondition
    ELSE IF fetch = "empty"
    THEN [volatility_24h |-> 0, volume_change |-> -1000, price_change |-> 0,
          unusual_activity |-> TRUE]
    ELSE [volatility_24h |-> sample[1],
          volume_change |-> sample[2],
          price_change |-> sample[3],
          unusual_activity |->
              \/ sample[1] > high_volatility_threshold
              \/ Abs(sample[2]) > volume_surge_threshold
              \/ Abs(sample[3]) > significant_price_change]

\* get_market_conditions: an error payload, an empty symbol list and an
\* exception anywhere in the body each return _default_market_condition().
GetMarketConditions(fetch, sample) ==
    IF fetch # "ok"
    THEN DefaultMarketCondition
    ELSE [volatility_24h |-> sample[1],
          volume_change |-> sample[2],
          price_change |-> sample[3],
          unusual_activity |->
              \/ sample[1] > high_volatility_threshold
              \/ Abs(sample[2]) > volume_surge_threshold
              \/ Abs(sample[3]) > significant_price_change]

\* self.last_analysis.get(level, datetime.min)
LastRun(la, level) == IF level \in DOMAIN la THEN la[level] ELSE datetime_min

\* is_weekend = now.weekday() >= 5
IsWeekend(t) == Weekday(t) >= 5

\* Active hours that end when the hour active_hours_end begins.
IsActiveHours_Mut(t) == active_hours_start <= Hour(t) /\ Hour(t) < active_hours_end

\* is_active_hours = active_hours_start <= now.hour <= active_hours_end
IsActiveHours(t) == active_hours_start <= Hour(t) /\ Hour(t) <= active_hours_end

\* scale = weekend_scale_factor if is_weekend else 1.0
Scale(t) == IF IsWeekend(t) THEN weekend_scale_factor ELSE <<1, 1>>

Interval(level) ==
    CASE level = "full" -> full_analysis_interval
      [] level = "medium" -> medium_analysis_interval
      [] level = "quick" -> quick_scan_interval
      [] level = "monitor" -> monitor_interval

\* now - last >= timedelta(minutes=interval * scale)
Due(la, level, t) ==
    (t - LastRun(la, level)) * Scale(t)[2] >= Interval(level) * Scale(t)[1]

\* The unusual-activity rule placed after the timers instead of before them.
DetermineAnalysisLevel_Mut(mc, la, t) ==
    IF Due(la, "full", t) THEN "full"
    ELSE IF Due(la, "medium", t) /\ IsActiveHours(t) THEN "medium"
    ELSE IF Due(la, "quick", t) THEN "quick"
    ELSE IF mc.unusual_activity THEN "full"
    ELSE "monitor"

\* determine_analysis_level
DetermineAnalysisLevel(mc, la, t) ==
    IF mc.unusual_activity THEN "full"
    ELSE IF Due(la, "full", t) THEN "full"
    ELSE IF Due(la, "medium", t) /\ IsActiveHours(t) THEN "medium"
    ELSE IF Due(la, "quick", t) THEN "quick"
    ELSE "monitor"

\* The estimated tokens a run of `level` adds to token_usage_today.
TokenCost(sched, level) ==
    IF sched = "SmartScheduler"
    THEN CASE level = "quick" -> 2000
           [] level = "medium" -> 8000
           [] level = "full" -> 25000
           [] level = "monitor" -> 0
    ELSE CASE level = "quick" -> 5000
           [] level = "medium" -> 15000
           [] level = "full" -> 35000
           [] level = "monitor" -> 0

\* No module of a scheduler imports `time`.
TimeImported_Mut(sched) == FALSE

\* Whether the name `time` is bound in the module of the running loop:
\* smart_scheduler.py has `import time`, test_mode_main.py has not.
TimeImported(sched) == sched = "SmartScheduler"

\* A budget check that lets a counter equal to the limit pass.
BudgetExhausted_Mut(tokens) == tokens > max_daily_tokens

\* `if self.token_usage_today >= max_daily_tokens`
BudgetExhausted(tokens) == tokens >= max_daily_tokens

NoResult == [level |-> "none"]
NoCondition == [unusual_activity |-> FALSE]

\* SmartScheduler.__init__ / TestModeScheduler.__init__, and the entry of the loop.
SchedInit ==
    /\ scheduler \in Schedulers
    /\ start_time \in StartTimes
    /\ now = start_time
    /\ \E duration_days \in DurationDays :
          end_time = IF scheduler = "TestModeScheduler"
                     THEN start_time + duration_days * 1440
                     ELSE start_time
    /\ pc = "top"
    /\ interrupted = FALSE
    /\ last_analysis = <<>>
    /\ token_usage_today = 0
    /\ market_condition = NoCondition
    /\ fetch_outcome = "none"
    /\ analysis_level = "none"
    /\ result = NoResult
    /\ runner_outcome = "none"

\* The ledger does not move in the scheduler's specification.
LedgerIdle == LedgerInit /\ initial_balance = 100000 /\ trading_fee = <<1, 10>>

InitSched == SchedInit /\ LedgerIdle /\ RetryIdle /\ ThreadsIdle /\ BinanceIdle /\ CrewIdle /\ TicksIdle

\* Minutes a run of the AnalysisRunner takes.
RunnerDurations == {0, 1}

\* What a call of the AnalysisRunner does: it returns, or it raises an Exception.
\* (run_autonomous_crew catches the failures of the crew itself and returns
\* None, which execute_analysis takes for a result; as autonomous_main.py line 86
\* declares it, run_autonomous_crew(inputs, output_dir), the call
\* run_autonomous_crew(verbose=False) of smart_scheduler.py raises TypeError.
\* The runner is modelled by its contract, with both outcomes.)
RunnerOutcomes == {"ok", "raised"}

\* `while datetime.now() < end_time` (run_test_simulation); `while True`
\* (run_continuous).
LoopCondition == scheduler = "TestModeScheduler" => now < end_time

\* run_test_simulation: `if current_time.hour == 0 and current_time.minute < 10:
\* self.token_usage_today = 0`.  run_continuous has no reset at this place.
TokensAfterTopReset ==
    IF scheduler = "TestModeScheduler" /\ Hour(now) = 0 /\ Minute(now) < 10
    THEN 0
    ELSE token_usage_today

\* _log_daily_summary, called by run_continuous when datetime.now().minute == 0:
\* the counter is reset when also datetime.now().hour == 0.
TokensAfterSummary(tokens, t) ==
    IF scheduler = "SmartScheduler" /\ Minute(t) = 0 /\ Hour(t) = 0
    THEN 0
    ELSE tokens

\* The loop condition of run_test_simulation fails: the simulation is over.
SimulationCompleted ==
    /\ pc = "top"
    /\ ~LoopCondition
    /\ pc' = "completed"
    /\ UNCHANGED <<scheduler, now, last_analysis, token_usage_today, market_condition, fetch_outcome,
                   analysis_level, result, runner_outcome, start_time, end_time,
                   interrupted>>

\* The start of a tick whose budget check finds the daily limit reached: the
\* loop goes to its sleep and `continue`s.
BudgetLimitReached ==
    /\ pc = "top"
    /\ LoopCondition
    /\ now - start_time < Horizon
    /\ BudgetExhausted(TokensAfterTopReset)
    /\ token_usage_today' = TokensAfterTopReset
    /\ pc' = "sleep"
    /\ UNCHANGED <<scheduler, now, last_analysis, market_condition, fetch_outcome, analysis_level,
                   result, runner_outcome, start_time, end_time,
                   interrupted>>

\* The start of a tick with budget left: get_market_conditions and
\* determine_analysis_level.
AssessAndDetermine ==
    /\ pc = "top"
    /\ LoopCondition
    /\ now - start_time < Horizon
    /\ ~BudgetExhausted(TokensAfterTopReset)
    /\ token_usage_today' = TokensAfterTopReset
    /\ \E fetch \in FetchOutcomes, sample \in MarketSamples :
          /\ fetch_outcome' = fetch
          /\ market_condition' = GetMarketConditions(fetch, sample)
    /\ analysis_level' = DetermineAnalysisLevel(market_condition', last_analysis, now)
    /\ pc' = "analysis"
    /\ UNCHANGED <<scheduler, now, last_analysis, result, runner_outcome,
                   start_time, end_time,
                   interrupted>>

\* The tokens execute_analysis / execute_test_analysis adds to the counter: the
\* addition stands after the call of the runner, inside the try.
TokensCharged(level, outcome) ==
    IF level # "monitor" /\ outcome = "ok" THEN TokenCost(scheduler, level) ELSE 0

\* The dict execute_analysis / execute_test_analysis returns.
AnalysisResult(level, outcome) ==
    IF level = "monitor"
    THEN [level |-> level, action |-> "monitor", tokens_used |-> 0]
    ELSE IF outcome = "ok"
    THEN [level |-> level, action |-> level,
          tokens_used |-> TokenCost(scheduler, level)]
    ELSE [level |-> level, error |-> "raised"]

\* A last-run time that is recorded for the runs that succeeded only.
ReachesStamp_Mut(outcome) == outcome = "ok"

\* Whether a run reaches the statement that records the last-run time: the
\* statement follows the if/elif chain, whose try statements catch every
\* Exception of the runner, so a run reaches it whatever the runner did.
ReachesStamp(outcome) == TRUE

\* Every last-run time set to the time of this run.
StampLastAnalysis_Mut(la, level, t) == [l \in (DOMAIN la) \cup {level} |-> t]

\* `self.last_analysis[level.value] = datetime.now()`, the last statement of
\* execute_analysis / execute_test_analysis, at every level, MONITOR included.
StampLastAnalysis(la, level, t) == Put(la, level, t)

\* execute_analysis / execute_test_analysis at the determined level, then the
\* hourly summary of the loop; the loop is then at its sleep.  The locals
\* market_condition and analysis_level of the iteration are dead from here on
\* (the next iteration assigns them before it reads them).
ExecuteAnalysis ==
    /\ pc = "analysis"
    /\ \E outcome \in RunnerOutcomes, d \in RunnerDurations :
          LET invoked == analysis_level # "monitor"
              t1 == IF invoked THEN now + d ELSE now
          IN  /\ ~invoked => (outcome = "ok" /\ d = 0)
              /\ runner_outcome' = IF invoked THEN outcome ELSE "not_invoked"
              /\ result' = AnalysisResult(analysis_level, outcome)
              /\ last_analysis' =
                    IF ReachesStamp(outcome)
                    THEN StampLastAnalysis(last_analysis, analysis_level, t1)
                    ELSE last_analysis
              /\ token_usage_today' =
                    TokensAfterSummary(
                        token_usage_today + TokensCharged(analysis_level, outcome), t1)
              /\ now' = t1
    /\ market_condition' = NoCondition
    /\ fetch_outcome' = "none"
    /\ analysis_level' = "none"
    /\ pc' = "sleep"
    /\ UNCHANGED <<scheduler, start_time, end_time,
                   interrupted>>

\* An exception nothing inside the tick catches reaches `except Exception` of
\* the loop, which logs it and goes to time.sleep(60).
UnexpectedError ==
    /\ pc = "analysis"
    /\ pc' = "error_wait"
    /\ result' = [level |-> analysis_level, error |-> "unexpected"]
    /\ market_condition' = NoCondition
    /\ fetch_outcome' = "none"
    /\ analysis_level' = "none"
    /\ UNCHANGED <<scheduler, now, last_analysis, token_usage_today, runner_outcome,
                   start_time, end_time,
                   interrupted>>

\* A call time.sleep(minutes * 60).  Where `time` is not imported the call raises
\* NameError: inside the try it is caught by `except Exception`, whose own
\* time.sleep(60) raises NameError again, and that one leaves the loop.
TimeSleep(minutes) ==
    IF TimeImported(scheduler)
    THEN /\ now' = now + minutes
         /\ pc' = "top"
    ELSE /\ now' = now
         /\ pc' = "crashed"

\* time.sleep(self.config.monitor_interval * 60) at the end of a tick.
Sleep ==
    /\ pc = "sleep"
    /\ TimeSleep(monitor_interval)
    /\ UNCHANGED <<scheduler, last_analysis, token_usage_today, market_condition, fetch_outcome,
                   analysis_level, result, runner_outcome, start_time, end_time,
                   interrupted>>

\* time.sleep(60) of the handler `except Exception`.
ErrorWait ==
    /\ pc = "error_wait"
    /\ TimeSleep(1)
    /\ UNCHANGED <<scheduler, last_analysis, token_usage_today, market_condition, fetch_outcome,
                   analysis_level, result, runner_outcome, start_time, end_time,
                   interrupted>>

\* An interrupt in the one-minute wait that is taken for the end of the wait.
AfterInterrupt_Mut(p) == IF p = "error_wait" THEN "top" ELSE "stopped"

\* Where a KeyboardInterrupt raised at position p of the loop leaves it: in
\* the try block `except KeyboardInterrupt: break` ends the loop; in the
\* time.sleep(60) of `except Exception` no handler holds it and it leaves
\* the loop with the method.  Nothing inside a tick catches it: the handlers
\* of the fetch, of execute_analysis and of the retry loops are all
\* `except Exception`.
AfterInterrupt(p) == "stopped"

\* KeyboardInterrupt, the stop signal: `except KeyboardInterrupt: break`, or, in
\* the handler's own sleep, the interrupt leaving the loop uncaught.
KeyboardInterrupt ==
    /\ pc \in {"top", "analysis", "sleep", "error_wait"}
    /\ pc' = AfterInterrupt(pc)
    /\ interrupted' = TRUE
    /\ UNCHANGED <<scheduler, now, last_analysis, token_usage_today, market_condition, fetch_outcome,
                   analysis_level, result, runner_outcome, start_time, end_time>>

NextSched ==
    \/ SimulationCompleted /\ UNCHANGED <<ledger_vars, retry_vars, thread_vars, binance_vars, crew_vars, tick_vars>>
    \/ BudgetLimitReached /\ UNCHANGED <<ledger_vars, retry_vars, thread_vars, binance_vars, crew_vars, tick_vars>>
    \/ AssessAndDetermine /\ UNCHANGED <<ledger_vars, retry_vars, thread_vars, binance_vars, crew_vars, tick_vars>>
    \/ ExecuteAnalysis /\ UNCHANGED <<ledger_vars, retry_vars, thread_vars, binance_vars, crew_vars, tick_vars>>
    \/ UnexpectedError /\ UNCHANGED <<ledger_vars, retry_vars, thread_vars, binance_vars, crew_vars, tick_vars>>
    \/ Sleep /\ UNCHANGED <<ledger_vars, retry_vars, thread_vars, binance_vars, crew_vars, tick_vars>>
    \/ ErrorWait /\ UNCHANGED <<ledger_vars, retry_vars, thread_vars, binance_vars, crew_vars, tick_vars>>
    \/ KeyboardInterrupt /\ UNCHANGED <<ledger_vars, retry_vars, thread_vars, binance_vars, crew_vars, tick_vars>>

SpecSched == InitSched /\ [][NextSched]_vars

(***************************************************************************)
(*                     Properties of the schedulers                        *)
(***************************************************************************)

LoopPositions == {"top", "analysis", "sleep", "error_wait"}

\* C4: a tick that starts with the day's counter at or above the daily limit
\* runs no analysis: the loop goes to its sleep (or is stopped), the runner is
\* not invoked, no level is executed and the counter does not grow, whatever
\* the market does.
C4_NoAnalysisWhenBudgetExhausted ==
    [][(pc = "top" /\ LoopCondition /\ token_usage_today >= max_daily_tokens)
         => /\ pc' \in {"sleep", "stopped"}
            /\ token_usage_today' <= token_usage_today
            /\ runner_outcome' = runner_outcome
            /\ last_analysis' = last_analysis
            /\ result' = result]_vars

\* A tick found the limit reached and went to its sleep: no analysis bears the
\* time of this tick.
C4_Witness ==
    /\ pc = "sleep"
    /\ token_usage_today >= max_daily_tokens
    /\ \A l \in DOMAIN last_analysis : last_analysis[l] < now

\* C5: with unusual_activity true (as when the volatility is above
\* high_volatility_threshold) the level determined is FULL, whatever the last-run
\* times, the day of the week and the hour.
C5_UnusualActivityGivesFull ==
    pc = "analysis" =>
        /\ market_condition.unusual_activity => analysis_level = "full"
        /\ market_condition.volatility_24h > high_volatility_threshold
              => analysis_level = "full"

\* Unusual activity met timers none of which was due.
C5_Witness ==
    /\ pc = "analysis"
    /\ market_condition.unusual_activity
    /\ analysis_level = "full"
    /\ \A l \in {"full", "medium", "quick"} :
          l \in DOMAIN last_analysis /\ ~Due(last_analysis, l, now)

\* C6: without unusual activity the level is FULL if the time since the last
\* FULL is at least full_interval * scale; else MEDIUM if the time since the last
\* MEDIUM is at least medium_interval * scale and the hour is within the active
\* hours (active_hours_start .. active_hours_end, both included); else QUICK if
\* the time since the last QUICK is at least quick_interval * scale; else
\* MONITOR; scale is weekend_scale_factor on Saturday and Sunday and 1 otherwise.
C6_TimerPriority ==
    (pc = "analysis" /\ ~market_condition.unusual_activity) =>
        LET scale == IF Weekday(now) \in {5, 6} THEN weekend_scale_factor ELSE <<1, 1>>
            since(l) == now - LastRun(last_analysis, l)
            full_due == since("full") * scale[2] >= full_analysis_interval * scale[1]
            medium_due ==
                since("medium") * scale[2] >= medium_analysis_interval * scale[1]
            quick_due == since("quick") * scale[2] >= quick_scan_interval * scale[1]
            active == Hour(now) \in active_hours_start..active_hours_end
        IN  /\ analysis_level = "full" <=> full_due
            /\ analysis_level = "medium" <=> (~full_due /\ medium_due /\ active)
            /\ analysis_level = "quick"
                  <=> (~full_due /\ ~(medium_due /\ active) /\ quick_due)
            /\ analysis_level = "monitor"
                  <=> (~full_due /\ ~(medium_due /\ active) /\ ~quick_due)

\* QUICK was chosen while MEDIUM was due but the hour was outside the active hours.
C6_Witness ==
    /\ pc = "analysis"
    /\ ~market_condition.unusual_activity
    /\ analysis_level = "quick"
    /\ "medium" \in DOMAIN last_analysis
    /\ now - last_analysis["medium"] >= medium_analysis_interval
    /\ ~IsWeekend(now)
    /\ Hour(now) > active_hours_end

\* C7: in SmartScheduler.run_continuous a failure of the runner, or an
\* unexpected error inside a tick, is recorded as the outcome of the tick and
\* does not end the loop: from the sleep that follows, the loop goes to the
\* start of the next tick, and the loop is left by the stop signal only.
C7_FailureDoesNotEndLoop ==
    [][scheduler = "SmartScheduler" =>
         /\ (pc = "analysis" /\ pc' = "sleep" /\ runner_outcome' = "raised")
               => ("error" \in DOMAIN result' /\ result'.level = analysis_level)
         /\ (pc = "analysis" /\ pc' = "error_wait")
               => ("error" \in DOMAIN result' /\ result'.level = analysis_level)
         /\ (pc \in {"sleep", "error_wait"} /\ pc' # pc) => pc' \in {"top", "stopped"}
         /\ (pc \in LoopPositions /\ pc' \notin LoopPositions) => pc' = "stopped"]_vars

\* The runner failed on a tick of SmartScheduler and the loop stands at the
\* start of the next tick.
C7_Witness ==
    /\ scheduler = "SmartScheduler"
    /\ pc = "top"
    /\ runner_outcome = "raised"
    /\ "error" \in DOMAIN result
    /\ \E l \in DOMAIN last_analysis : last_analysis[l] < now

\* C8: run_test_simulation ends only when its duration has elapsed or the stop
\* signal has arrived.
C8_SimulationEndsOnlyByDurationOrStop ==
    (scheduler = "TestModeScheduler" /\ pc \notin LoopPositions)
        => pc \in {"completed", "stopped"}

\* C9: a failed run of the runner at a level above MONITOR adds the cost of the
\* level to the daily counter (unless the midnight summary resets the counter
\* on that tick).
C9_FailedRunIsCharged ==
    [][(pc = "analysis" /\ analysis_level # "monitor" /\ pc' = "sleep"
          /\ runner_outcome' = "raised")
         => \/ token_usage_today'
                  = token_usage_today + TokenCost(scheduler, analysis_level)
            \/ (Hour(now') = 0 /\ Minute(now') = 0 /\ token_usage_today' = 0)]_vars

\* C10: the counter is reset at every midnight, so a tick whose budget check
\* finds the limit reached finds it reached by runs of the current day.
C10_ExhaustionIsOfToday ==
    (pc = "top" /\ LoopCondition /\ BudgetExhausted(TokensAfterTopReset))
        => \E l \in DOMAIN last_analysis \ {"monitor"} :
              DayOf(last_analysis[l]) = DayOf(now)

\* C11: when the fetch of market signals fails (error payload, empty symbol
\* list or exception) the tick goes on: get_market_conditions returns the
\* default condition (volatility 0.02, no change, unusual_activity false), and
\* the level of that tick is the one the timers give; it is FULL only when the
\* full timer is due.
C11_FailedFetchGivesDefault ==
    [][(pc = "top" /\ fetch_outcome' \in {"error", "empty", "exception"}) =>
          /\ pc' = "analysis"
          /\ market_condition' = [volatility_24h |-> 20, volume_change |-> 0,
                                   price_change |-> 0, unusual_activity |-> FALSE]
          /\ analysis_level' \in Levels
          /\ analysis_level' = "full" => Due(last_analysis, "full", now)
          /\ analysis_level' = "medium" => Due(last_analysis, "medium", now)
          /\ analysis_level' = "quick" => Due(last_analysis, "quick", now)
          /\ analysis_level' = "monitor" =>
                 /\ ~Due(last_analysis, "full", now)
                 /\ ~Due(last_analysis, "quick", now)]_vars

\* A tick whose fetch returned an empty symbol list and that only monitors.
C11_Witness ==
    /\ pc = "analysis"
    /\ fetch_outcome = "empty"
    /\ market_condition = DefaultMarketCondition
    /\ analysis_level = "monitor"
    /\ "full" \in DOMAIN last_analysis

(***************************************************************************)
(*            CrewRetryHandler and RetryableChatOpenAI                     *)
(*                                                                         *)
(* The two retry loops of the repository: execute_with_retry               *)
(* (autonomous_crew.py) and _generate_content (ionos_llm.py).  Delays are  *)
(* in milliseconds.  An error is its message, given by the set of pattern  *)
(* phrases that occur in the lower-cased text, and its class.              *)
(***************************************************************************)

\* max_retries is drawn from 0 .. MaxRetriesLimit.
MaxRetriesLimit == 3

Handlers == {"CrewRetryHandler", "RetryableChatOpenAI"}

\* base_delay=1.0 of both constructors.
BaseDelays == {1000}
\* max_delay: the default 60.0 and a configured 3.0, which 1.0 * 2^2 exceeds.
MaxDelays == {3000, 60000}

\* random.random() and time.time() % 1, in hundredths.
JitterValues == {0, 50, 99}

\* The errors the operation raises.
Errors ==
    { [text |-> "request timeout", contains |-> {"timeout"},
       class |-> "Exception"],
      [text |-> "429 too many requests", contains |-> {"429", "too many requests"},
       class |-> "RateLimitError"],
      [text |-> "401 unauthorized", contains |-> {"401", "unauthorized"},
       class |-> "Exception"],
      [text |-> "division by zero", contains |-> {},
       class |-> "Exception"],
      [text |-> "401 unauthorized: token validation timeout",
       contains |-> {"401", "unauthorized", "timeout"},
       class |-> "Exception"] }

Min(a, b) == IF a < b THEN a ELSE b
Max(a, b) == IF a < b THEN b ELSE a

\* retryable_patterns of is_retryable_error.  The patterns "ConnectionError",
\* "TimeoutError" and "ReadTimeout" are compared with a lower-cased text and
\* never occur in it.
CrewRetryablePatterns ==
    {"connection error", "timeout", "503", "502", "500", "rate limit",
     "too many requests", "network", "connection"}

\* The litellm exception classes is_retryable_error tests with isinstance.
LiteLLMRetryableClasses ==
    {"Timeout", "APIConnectionError", "RateLimitError", "InternalServerError"}

\* CrewRetryHandler.is_retryable_error
IsRetryableError(error) ==
    \/ error.class \in LiteLLMRetryableClasses
    \/ error.contains \cap CrewRetryablePatterns # {}

\* The three phrase lists of _should_retry that return True.
RateLimitPhrases ==
    {"rate limit", "rate_limit", "too many requests", "quota exceeded",
     "limit exceeded", "429", "throttled"}
ConnectionPhrases ==
    {"connection error", "connection failed", "timeout", "network",
     "connection timed out", "read timeout", "connect timeout",
     "internal server error", "502", "503", "504"}
TemporaryPhrases ==
    {"service unavailable", "temporary", "try again", "temporarily unavailable"}
\* The phrase list of _should_retry that returns False.
NonRetryablePhrases ==
    {"unauthorized", "invalid api key", "authentication failed", "model not found",
     "invalid model", "validation error", "bad request", "400", "401", "403", "404"}

\* RetryableChatOpenAI._should_retry: the lists are tested in this order.
ShouldRetry(error) ==
    IF error.contains \cap RateLimitPhrases # {} THEN TRUE
    ELSE IF error.contains \cap ConnectionPhrases # {} THEN TRUE
    ELSE IF error.contains \cap TemporaryPhrases # {} THEN TRUE
    ELSE IF error.contains \cap NonRetryablePhrases # {} THEN FALSE
    ELSE FALSE

\* CrewRetryHandler.exponential_backoff_delay(attempt = k), random.random() = r/100:
\*   delay = min(base_delay * 2 ** k, max_delay)
\*   jitter = delay * 0.25 * (2 * random.random() - 1)
\*   return max(0.1, delay + jitter)
ExponentialBackoffDelay(k, r) ==
    LET delay == Min(base_delay * 2^k, max_delay)
        jitter == (delay * (2 * r - 100)) \div 400
    IN  Max(100, delay + jitter)

\* RetryableChatOpenAI._calculate_delay(attempt = k), time.time() % 1 = r/100:
\*   delay = base_delay * 2 ** k
\*   jitter = delay * 0.25 * (time.time() % 1)
\*   return min(delay + jitter, max_delay)
CalculateDelay(k, r) ==
    LET delay == base_delay * 2^k
        jitter == (delay * r) \div 400
    IN  Min(delay + jitter, max_delay)

\* A retry test that stops one attempt early.
BudgetLeft_Mut(a, m) == a + 1 < m

\* `attempt < self.max_retries` (execute_with_retry); the negation of
\* `attempt >= self.max_retries` (_generate_content).
BudgetLeft(a, m) == a < m

\* Whether the loop goes on after `error` was raised in iteration `attempt`.
Retries(error) ==
    /\ BudgetLeft(attempt, max_retries)
    /\ IF handler = "CrewRetryHandler" THEN IsRetryableError(error)
                                       ELSE ShouldRetry(error)

\* A backoff computed from the index of the iteration that waits.
BackoffAttempt_Mut == attempt

\* The index the delay is computed for.  execute_with_retry sleeps at the start
\* of iteration `attempt` > 0 for exponential_backoff_delay(attempt - 1);
\* _generate_content sleeps at the end of the failed iteration for
\* _calculate_delay(attempt).
BackoffAttempt == IF handler = "CrewRetryHandler" THEN attempt - 1 ELSE attempt

NoOutcome == [text |-> "none", contains |-> {}, class |-> "none"]

\* CrewRetryHandler.__init__ / RetryableChatOpenAI.__init__ and the entry of the
\* loop `for attempt in range(self.max_retries + 1)`.
RetryInit ==
    /\ handler \in Handlers
    /\ max_retries \in 0..MaxRetriesLimit
    /\ base_delay \in BaseDelays
    /\ max_delay \in MaxDelays
    /\ attempt = 0
    /\ rpc = "invoke"
    /\ events = <<>>
    /\ last_error = NoError
    /\ retry_result = NoReturn

\* `result = operation(*args, **kwargs); return result` /
\* `return super()._generate(messages, **kwargs)`.
OperationReturns ==
    /\ rpc = "invoke"
    /\ events' = Append(events, [ev |-> "call", attempt |-> attempt, ok |-> TRUE,
                                 error |-> NoOutcome])
    /\ rpc' = "returned"
    /\ retry_result' = [kind |-> "result", attempt |-> attempt]
    /\ UNCHANGED <<handler, max_retries, base_delay, max_delay, attempt, last_error>>

\* The operation raises and the except clause goes on to another iteration.
RetryAfterError ==
    /\ rpc = "invoke"
    /\ \E error \in Errors :
          /\ Retries(error)
          /\ events' = Append(events, [ev |-> "call", attempt |-> attempt,
                                       ok |-> FALSE, error |-> error])
          /\ last_error' = [error |-> error.text, attempt |-> attempt]
    /\ attempt' = IF handler = "CrewRetryHandler" THEN attempt + 1 ELSE attempt
    /\ rpc' = "wait"
    /\ UNCHANGED <<handler, max_retries, base_delay, max_delay, retry_result>>

\* The operation raises and the except clause breaks: `raise last_error`.
RaiseLastError ==
    /\ rpc = "invoke"
    /\ \E error \in Errors :
          /\ ~Retries(error)
          /\ events' = Append(events, [ev |-> "call", attempt |-> attempt,
                                       ok |-> FALSE, error |-> error])
          /\ last_error' = [error |-> error.text, attempt |-> attempt]
    /\ rpc' = "raised"
    /\ retry_result' = [kind |-> "raised", error |-> last_error']
    /\ UNCHANGED <<handler, max_retries, base_delay, max_delay, attempt>>

\* time.sleep(delay) between a failed call and the next one.
BackoffWait ==
    /\ rpc = "wait"
    /\ \E r \in JitterValues :
          events' = Append(events,
              [ev |-> "wait", k |-> BackoffAttempt,
               delay |-> IF handler = "CrewRetryHandler"
                         THEN ExponentialBackoffDelay(BackoffAttempt, r)
                         ELSE CalculateDelay(BackoffAttempt, r)])
    /\ attempt' = IF handler = "CrewRetryHandler" THEN attempt ELSE attempt + 1
    /\ rpc' = "invoke"
    /\ UNCHANGED <<handler, max_retries, base_delay, max_delay, last_error,
                   retry_result>>

InitRetry == RetryInit /\ LedgerIdle /\ SchedIdle /\ ThreadsIdle /\ BinanceIdle /\ CrewIdle /\ TicksIdle

NextRetry ==
    \/ OperationReturns /\ UNCHANGED <<ledger_vars, sched_vars, thread_vars, binance_vars, crew_vars, tick_vars>>
    \/ RetryAfterError /\ UNCHANGED <<ledger_vars, sched_vars, thread_vars, binance_vars, crew_vars, tick_vars>>
    \/ RaiseLastError /\ UNCHANGED <<ledger_vars, sched_vars, thread_vars, binance_vars, crew_vars, tick_vars>>
    \/ BackoffWait /\ UNCHANGED <<ledger_vars, sched_vars, thread_vars, binance_vars, crew_vars, tick_vars>>

SpecRetry == InitRetry /\ [][NextRetry]_vars

(***************************************************************************)
(*                     Properties of the retry loops                       *)
(***************************************************************************)

\* The calls of the operation and the sleeps, in order.
Calls == SelectSeq(events, LAMBDA e : e.ev = "call")
Waits == SelectSeq(events, LAMBDA e : e.ev = "wait")

IsTimeout(c) == ~c.ok /\ c.error.text = "request timeout"

\* Whether the running handler classifies the error of call c as retryable.
ClassifiedRetryable(c) ==
    /\ ~c.ok
    /\ IF handler = "CrewRetryHandler" THEN IsRetryableError(c.error)
                                       ELSE ShouldRetry(c.error)

\* C12: with a retry budget of at least 2, an operation that times out on its
\* first two calls and succeeds on the third is not given up, and the loop
\* returns the result of the third call after exactly three calls and two
\* sleeps, the first computed for index 0 and the second for index 1, each
\* between a failed call and the next call.
C12_TwoTimeoutsThenSuccess ==
    /\ (/\ max_retries >= 2
        /\ Len(Calls) \in {1, 2}
        /\ \A i \in 1..Len(Calls) : IsTimeout(Calls[i]))
       => rpc \in {"wait", "invoke"}
    /\ (/\ Len(Calls) = 3
        /\ IsTimeout(Calls[1])
        /\ IsTimeout(Calls[2])
        /\ Calls[3].ok)
       => /\ rpc = "returned"
          /\ retry_result = [kind |-> "result", attempt |-> 2]
          /\ Len(events) = 5
          /\ events[1].ev = "call" /\ events[3].ev = "call" /\ events[5].ev = "call"
          /\ events[2].ev = "wait" /\ events[2].k = 0
          /\ events[4].ev = "wait" /\ events[4].k = 1

\* Two timeouts, then the third call returns.
C12_Witness ==
    /\ rpc = "returned"
    /\ Len(Calls) = 3
    /\ IsTimeout(Calls[1])
    /\ IsTimeout(Calls[2])
    /\ Len(Waits) = 2

\* C13: the retry loop is bounded by its budget (at most max_retries + 1 calls
\* and max_retries sleeps), and when every call fails with a retryable error
\* the loop ends after exactly max_retries + 1 calls and max_retries sleeps by
\* raising the error of the last call itself.
C13_ExhaustionRaisesLastError ==
    /\ Len(Calls) <= max_retries + 1
    /\ Len(Waits) <= max_retries
    /\ rpc \in {"invoke", "wait"} => Len(Waits) + 1 >= Len(Calls)
    /\ (rpc = "raised" /\ \A i \in 1..Len(Calls) : ClassifiedRetryable(Calls[i]))
       => /\ Len(Calls) = max_retries + 1
          /\ Len(Waits) = max_retries
          /\ retry_result =
                [kind |-> "raised",
                 error |-> [error |-> Calls[Len(Calls)].error.text,
                            attempt |-> max_retries]]

\* A budget of two retries used up by a timeout, a rate limit and a timeout.
C13_Witness ==
    /\ rpc = "raised"
    /\ max_retries = 2
    /\ Len(Calls) = 3
    /\ IsTimeout(Calls[1])
    /\ Calls[2].error.text = "429 too many requests"
    /\ IsTimeout(Calls[3])

\* Whether the message of an error matches none of the pattern lists and its
\* class is none of the retryable ones.
MatchesNoPattern(error) ==
    /\ error.class \notin LiteLLMRetryableClasses
    /\ error.contains \cap (CrewRetryablePatterns \cup RateLimitPhrases
                            \cup ConnectionPhrases \cup TemporaryPhrases
                            \cup NonRetryablePhrases) = {}

\* C14: an error whose message matches an authentication/validation/4xx
\* pattern, or no pattern at all, is never retried, whatever else its message
\* contains: the failed call is the last thing the loop does and that error is
\* raised to the caller.
C14_NonRetryableSurfacesAtOnce ==
    \A i \in 1..Len(events) :
        (/\ events[i].ev = "call"
         /\ ~events[i].ok
         /\ \/ events[i].error.contains \cap NonRetryablePhrases # {}
            \/ MatchesNoPattern(events[i].error))
        => /\ i = Len(events)
           /\ rpc = "raised"
           /\ retry_result = [kind |-> "raised",
                              error |-> [error |-> events[i].error.text,
                                         attempt |-> events[i].attempt]]

\* C15: every backoff delay d computed for index k lies between
\* min(0.75 * base_delay * 2^k, max_delay) and min(1.25 * base_delay * 2^k,
\* max_delay); in particular no sleep is longer than max_delay.
C15_DelayWithinBounds ==
    \A i \in 1..Len(events) :
        events[i].ev = "wait" =>
            LET k == events[i].k
                d == events[i].delay
            IN  /\ Min(3 * base_delay * 2^k, 4 * max_delay) <= 4 * d
                /\ 4 * d <= Min(5 * base_delay * 2^k, 4 * max_delay)

(***************************************************************************)
(*                  Properties of accepted orders                          *)
(***************************************************************************)

\* C16: an accepted buy of usd_amount at a price decreases the cash balance by
\* exactly usd_amount, appends a BUY trade with fee = usd_amount * fee rate and
\* quantity = (usd_amount - fee) / price, and adds that quantity to the
\* symbol's position: an existing position gets the average price
\* (old total_cost + net) / (old quantity + quantity), a missing one is created
\* at the price of the buy.  Other positions are untouched.
C16_AcceptedBuy ==
    [][(call'.op = "buy" /\ ret' = "Trade") =>
         LET symbol == call'.symbol
             usd_amount == call'.amount
             price == call'.price
             fee == (usd_amount * trading_fee[1]) \div trading_fee[2]
             net == usd_amount - fee
             quantity == net \div price
             trade == trades'[Len(trades')]
         IN  /\ current_balance' = current_balance - usd_amount
             /\ Len(trades') = Len(trades) + 1
             /\ SubSeq(trades', 1, Len(trades)) = trades
             /\ trade.side = "BUY" /\ trade.symbol = symbol
             /\ trade.fee = fee /\ trade.quantity = quantity
             /\ trade.price = price /\ trade.value = usd_amount
             /\ DOMAIN positions' = DOMAIN positions \cup {symbol}
             /\ \A other \in DOMAIN positions \ {symbol} :
                   positions'[other] = positions[other]
             /\ IF symbol \in DOMAIN positions
                THEN /\ positions'[symbol].quantity =
                           positions[symbol].quantity + quantity
                     /\ positions'[symbol].total_cost =
                           positions[symbol].total_cost + net
                     /\ positions'[symbol].avg_price =
                           (positions[symbol].total_cost + net)
                              \div (positions[symbol].quantity + quantity)
                ELSE /\ positions'[symbol].quantity = quantity
                     /\ positions'[symbol].total_cost = net
                     /\ positions'[symbol].avg_price = price]_vars

\* Two fee-free buys of one symbol, 10000 at 200 and 10000 at 300: 50 + 33
\* units for 20000, an average price of 240, between the two prices.
C16_Witness ==
    /\ call.op = "buy" /\ ret = "Trade"
    /\ trading_fee = <<0, 1>>
    /\ Len(trades) = 2
    /\ trades[1].side = "BUY" /\ trades[2].side = "BUY"
    /\ trades[1].symbol = trades[2].symbol
    /\ trades[1].price = 200 /\ trades[2].price = 300
    /\ trades[1].value = 10000 /\ trades[2].value = 10000
    /\ positions[call.symbol].quantity = 83
    /\ positions[call.symbol].avg_price = 240

\* A step in which a sell was accepted, and what is left of the position.
SellAccepted == call'.op = "sell" /\ ret' = "Trade"
Remaining == positions[call'.symbol].quantity - call'.amount

\* What an accepted sell does to the cash balance, to the trade log and to a
\* position that is kept.
AcceptedSellEffects ==
    SellAccepted =>
         LET symbol == call'.symbol
             quantity == call'.amount
             gross == quantity * call'.price
             fee == (gross * trading_fee[1]) \div trading_fee[2]
             trade == trades'[Len(trades')]
         IN  /\ current_balance' = current_balance + gross - fee
             /\ Len(trades') = Len(trades) + 1
             /\ trade.side = "SELL" /\ trade.symbol = symbol
             /\ trade.quantity = quantity /\ trade.fee = fee
             /\ symbol \in DOMAIN positions' =>
                   /\ positions'[symbol].quantity = Remaining
                   /\ positions'[symbol].total_cost =
                         (positions[symbol].total_cost * Remaining)
                            \div positions[symbol].quantity
                   /\ positions'[symbol].avg_price = positions[symbol].avg_price

\* C17, as claimed: an accepted sell increases the cash balance by
\* quantity * price * (1 - fee rate) and decreases the position by quantity; a
\* position that is kept has its total_cost scaled by remaining / previous
\* quantity and its average price unchanged; the position is removed exactly
\* when the remaining quantity is below epsilon (1e-6).
C17_SellRemovesBelowEpsilon ==
    [][/\ AcceptedSellEffects
       /\ SellAccepted =>
             (call'.symbol \notin DOMAIN positions' <=> Remaining < Epsilon)]_vars

\* C17, amended: as above, but the position is removed exactly when the
\* remaining quantity is at most epsilon: a remainder of exactly 1e-6 closes
\* the position.
C17_SellRemovesUpToEpsilon ==
    [][/\ AcceptedSellEffects
       /\ SellAccepted =>
             (call'.symbol \notin DOMAIN positions' <=> Remaining <= Epsilon)]_vars

\* A sell left exactly epsilon of the position, and the position is gone.
C17_Witness ==
    /\ call.op = "sell" /\ ret = "Trade"
    /\ Len(trades) = 2
    /\ trades[1].side = "BUY" /\ trades[1].symbol = call.symbol
    /\ trades[1].quantity - call.amount = Epsilon
    /\ call.symbol \notin DOMAIN positions

\* A buy on a fresh ledger followed by a sell of the acquired quantity of the
\* same symbol at the same price.
RoundTrip ==
    /\ Len(trades) = 2
    /\ trades[1].side = "BUY" /\ trades[2].side = "SELL"
    /\ trades[1].symbol = trades[2].symbol
    /\ trades[1].price = trades[2].price
    /\ trades[1].quantity = trades[2].quantity

\* C18, as claimed: after a round trip the position is removed and the cash
\* balance is the initial balance less twice the fee of the buy (both legs
\* charge the same fee).  Stated for the round trips whose quantity is the
\* exact quotient of the net amount by the price.
C18_RoundTripCostsTwiceTheFee ==
    (/\ RoundTrip
     /\ trades[1].quantity * trades[1].price = trades[1].value - trades[1].fee)
    => /\ trades[1].symbol \notin DOMAIN positions
       /\ current_balance = initial_balance - 2 * trades[1].fee

\* C18, amended: after a round trip the position is removed and the cash
\* balance is the initial balance less the fee of the buy and the fee of the
\* sell; the sell's fee is the fee rate of the gross proceeds, that is of the
\* net amount of the buy, and so never exceeds the buy's fee.  (`remainder` is
\* what the division of the net amount by the price leaves, less than the price
\* of one quantity unit, zero where the quotient is exact.)
C18_RoundTripCostsBothFees ==
    RoundTrip =>
        LET buy == trades[1]
            sell == trades[2]
            remainder == (buy.value - buy.fee) - buy.quantity * buy.price
        IN  /\ buy.symbol \notin DOMAIN positions
            /\ 0 <= remainder /\ remainder < buy.price
            /\ sell.value = buy.value - buy.fee - remainder
            /\ sell.fee = (sell.value * trading_fee[1]) \div trading_fee[2]
            /\ sell.fee <= buy.fee
            /\ current_balance = initial_balance - buy.fee - sell.fee - remainder

\* A round trip at a fee rate of 10%: 10000 buys 45 units at 200 for a fee of
\* 1000, the sale of the 45 units costs a fee of 900.
C18_Witness ==
    /\ RoundTrip
    /\ trading_fee = <<1, 10>>
    /\ trades[1].fee = 1000
    /\ trades[2].fee = 900
    /\ current_balance = initial_balance - 1900

(***************************************************************************)
(*        Daily reports and restart of the PortfolioSimulator              *)
(*                                                                         *)
(* SpecReports follows one symbol through orders, daily reports, days and  *)
(* restarts of the process (a new PortfolioSimulator loading the files).   *)
(***************************************************************************)

\* Bounds of the report model: reports generated, and days the clock advances.
MaxReports == 2
MaxDays == 1

\* The current_prices a caller passes: none, or a price for the symbol.
PriceMaps == { <<>>, [symbol \in {"BTCUSDT"} |-> 300] }

\* The positions after get_current_portfolio_value(current_prices), which
\* rewrites the price, value and unrealized P&L of every priced position.
Revalued(current_prices) ==
    [symbol \in DOMAIN positions |->
        IF symbol \in DOMAIN current_prices
        THEN [positions[symbol] EXCEPT
                 !.current_price = current_prices[symbol],
                 !.current_value = positions[symbol].quantity * current_prices[symbol],
                 !.unrealized_pnl = positions[symbol].quantity * current_prices[symbol]
                                       - positions[symbol].total_cost]
        ELSE positions[symbol]]

RECURSIVE PositionsValue(_, _)
\* The sum of current_value over the symbols S of pos.
PositionsValue(pos, S) ==
    IF S = {} THEN 0
    ELSE LET symbol == CHOOSE x \in S : TRUE
         IN  pos[symbol].current_value + PositionsValue(pos, S \ {symbol})

\* get_current_portfolio_value: cash plus the value of the priced positions.
GetCurrentPortfolioValue(current_prices) ==
    current_balance
      + PositionsValue(Revalued(current_prices),
                       DOMAIN positions \cap DOMAIN current_prices)

\* A starting value that is always the initial balance.
YesterdayValue_Mut == initial_balance

\* yesterday_value: the ending balance of the last report of the log, or the
\* initial balance when the log is empty.
YesterdayValue ==
    IF daily_reports # <<>>
    THEN daily_reports[Len(daily_reports)].ending_balance
    ELSE initial_balance

\* should_generate_daily_report
ShouldGenerateDailyReport == last_report_date # today

\* generate_daily_report(current_prices): the report is appended and the state
\* saved whatever the date of the last report is.  (The percentage fields, the
\* performers and key_actions of the DailyReport are left out.)
GenerateDailyReport(current_prices) ==
    LET positions2 == Revalued(current_prices)
        current_portfolio_value == GetCurrentPortfolioValue(current_prices)
        yesterday_value == YesterdayValue
        today_trades == SelectSeq(trades, LAMBDA t : t.timestamp = today)
        report == [date |-> IsoFormat(today),
                   starting_balance |-> yesterday_value,
                   ending_balance |-> current_portfolio_value,
                   daily_pnl |-> current_portfolio_value - yesterday_value,
                   total_pnl |-> current_portfolio_value - initial_balance,
                   positions_count |-> Cardinality(DOMAIN positions),
                   trades_count |-> Len(today_trades)]
        reports2 == Append(daily_reports, report)
    IN  /\ Len(daily_reports) < MaxReports
        /\ call' = [op |-> "report"]
        /\ positions' = positions2
        /\ daily_reports' = reports2
        /\ last_report_date' = today
        /\ SaveAndReturn(current_balance, positions2, trades, reports2, "Report")
        /\ UNCHANGED <<initial_balance, current_balance, trading_fee, trades, today,
                       start_date>>

\* TestModeCrew.generate_daily_report: a direct call.
GenerateReport ==
    \E current_prices \in PriceMaps : GenerateDailyReport(current_prices)

\* The tick of run_test_simulation: `if should_generate_daily_report():
\* generate_daily_report(current_prices)`.
ReportIfDue ==
    /\ ShouldGenerateDailyReport
    /\ \E current_prices \in PriceMaps : GenerateDailyReport(current_prices)

\* Midnight passes.
NextDay ==
    /\ today < MaxDays
    /\ today' = today + 1
    /\ UNCHANGED <<initial_balance, current_balance, trading_fee, positions, trades,
                   daily_reports, files, call, ret, start_date, last_report_date,
                   save_error, stop_signal>>

\* A new process: PortfolioSimulator(initial_balance, trading_fee), started
\* with the arguments of the process before it, whose __init__ sets the
\* defaults and then _load_portfolio_state reads each file that exists, in
\* one try: the first file that json.load cannot parse ends the loading.
Restart ==
    \E balance \in {initial_balance}, fee \in {trading_fee} :
        LET portfolio_read == files.portfolio.exists /\ ~Torn(files.portfolio)
            trades_reached == ~Torn(files.portfolio)
            trades_read == trades_reached /\ files.trades.exists
                              /\ ~Torn(files.trades)
            reports_reached == trades_reached /\ ~Torn(files.trades)
            reports_read == reports_reached /\ files.reports.exists
                               /\ ~Torn(files.reports)
        IN
        /\ call' = [op |-> "restart"]
        /\ ret' = "None"
        /\ trading_fee' = fee
        /\ IF portfolio_read
           THEN /\ current_balance' = files.portfolio.current_balance
                /\ initial_balance' = files.portfolio.initial_balance
                /\ start_date' = FromIsoFormat(files.portfolio.start_date)
                /\ positions' = files.portfolio.positions
           ELSE /\ current_balance' = balance
                /\ initial_balance' = balance
                /\ start_date' = today
                /\ positions' = <<>>
        /\ trades' = IF trades_read
                     THEN [i \in 1..Len(files.trades.data) |->
                             [files.trades.data[i] EXCEPT
                                 !.timestamp = FromIsoFormat(@)]]
                     ELSE <<>>
        /\ daily_reports' = IF reports_read THEN files.reports.data ELSE <<>>
        /\ last_report_date' =
              IF reports_read /\ files.reports.data # <<>>
              THEN FromIsoFormat(files.reports.data[Len(files.reports.data)].date)
              ELSE NoDate
        /\ save_error' = FALSE
        /\ stop_signal' = FALSE
        /\ UNCHANGED <<files, today>>

\* The orders of the report model: buys of one symbol for one amount, and the
\* sale of the whole of the position (partial sales are followed in SpecLedger
\* and SpecAccount).
ReportsBuy ==
    ExecuteBuyOrder("BTCUSDT", 10000, 200)

ReportsSell ==
    /\ "BTCUSDT" \in DOMAIN positions
    /\ ExecuteSellOrder("BTCUSDT", positions["BTCUSDT"].quantity, 300)

InitReports == LedgerIdle /\ SchedIdle /\ RetryIdle /\ ThreadsIdle /\ BinanceIdle /\ CrewIdle /\ TicksIdle

\* The model follows a process up to its restart, and the next process as far
\* as the state its constructor leaves.
FirstProcess == call.op # "restart"

NextReports ==
    \/ FirstProcess /\ ReportsBuy /\ UNCHANGED <<sched_vars, retry_vars, thread_vars, binance_vars, crew_vars, tick_vars>>
    \/ FirstProcess /\ ReportsSell /\ UNCHANGED <<sched_vars, retry_vars, thread_vars, binance_vars, crew_vars, tick_vars>>
    \/ FirstProcess /\ GenerateReport /\ UNCHANGED <<sched_vars, retry_vars, thread_vars, binance_vars, crew_vars, tick_vars>>
    \/ FirstProcess /\ ReportIfDue /\ UNCHANGED <<sched_vars, retry_vars, thread_vars, binance_vars, crew_vars, tick_vars>>
    \/ FirstProcess /\ NextDay /\ UNCHANGED <<sched_vars, retry_vars, thread_vars, binance_vars, crew_vars, tick_vars>>
    \/ Restart /\ UNCHANGED <<sched_vars, retry_vars, thread_vars, binance_vars, crew_vars, tick_vars>>

SpecReports == InitReports /\ [][NextReports]_vars

\* Whether no two reports of a report log carry the same date.
OneReportPerDate(reports) ==
    \A i, j \in 1..Len(reports) : reports[i].date = reports[j].date => i = j

\* C19: generate_daily_report is idempotent per calendar date: the report log
\* in memory and the persisted one hold at most one report for each date.
C19_OneReportPerDate ==
    /\ OneReportPerDate(daily_reports)
    /\ files.reports.exists => OneReportPerDate(files.reports.data)

\* C20: when the last save of the running ledger completed, a new ledger
\* constructed from the three files has the cash balance, initial balance,
\* start date, positions, trade log and report log the running ledger held.
C20_RestartRestoresState ==
    [][(/\ call'.op = "restart"
        /\ files.portfolio.exists
        /\ ~save_error)
       => UNCHANGED <<current_balance, initial_balance, start_date, positions,
                      trades, daily_reports>>]_vars

\* A restarted ledger that holds a position, two trades and a report, all of
\* them read from the files.
C20_Witness ==
    /\ call.op = "restart"
    /\ Len(trades) = 2
    /\ positions # <<>>
    /\ daily_reports # <<>>
    /\ files.trades.exists /\ Len(files.trades.data) = 2
    /\ files.reports.exists /\ files.reports.data = daily_reports
    /\ files.portfolio.exists /\ files.portfolio.current_balance = current_balance
    /\ current_balance < initial_balance

(***************************************************************************)
(*          The lifecycle of the account: tool, reset, interrupt           *)
(*                                                                         *)
(* SpecAccount follows one symbol through the orders of the                *)
(* PortfolioSimulatorTool, valuations, daily reports, resets, a process    *)
(* interrupt that reaches an operation while it saves, and the restart.    *)
(***************************************************************************)

\* `new_initial_balance: float = None`
NoBalance == -1

\* The balances a caller passes to reset_portfolio.
ResetBalances == {NoBalance, 50000}

\* The amounts, quantities and prices an agent passes to the tool.
ToolUsdAmounts == {0, 300, 10000}
ToolPrices == {200}
ToolQuantities == {0}

\* A validation that lets an amount of zero through.
InvalidBuyParameters_Mut(symbol, usd_amount, current_price) ==
    symbol = "" \/ usd_amount < 0 \/ current_price <= 0

\* `if not symbol or usd_amount <= 0 or current_price <= 0`
InvalidBuyParameters(symbol, usd_amount, current_price) ==
    symbol = "" \/ usd_amount <= 0 \/ current_price <= 0

\* `if not symbol or quantity <= 0 or current_price <= 0`
InvalidSellParameters(symbol, quantity, current_price) ==
    symbol = "" \/ quantity <= 0 \/ current_price <= 0

\* PortfolioSimulatorTool._execute_buy_order(parameters)
ToolExecuteBuyOrder(symbol, usd_amount, current_price) ==
    IF InvalidBuyParameters(symbol, usd_amount, current_price)
    THEN /\ call' = [op |-> "buy", symbol |-> symbol, amount |-> usd_amount,
                     price |-> current_price]
         /\ ret' = "Invalid parameters"
         /\ UNCHANGED <<initial_balance, current_balance, trading_fee, positions,
                        trades, daily_reports, files, today, start_date,
                        last_report_date, save_error, stop_signal>>
    ELSE ExecuteBuyOrder(symbol, usd_amount, current_price)

\* PortfolioSimulatorTool._execute_sell_order(parameters)
ToolExecuteSellOrder(symbol, quantity, current_price) ==
    IF InvalidSellParameters(symbol, quantity, current_price)
    THEN /\ call' = [op |-> "sell", symbol |-> symbol, amount |-> quantity,
                     price |-> current_price]
         /\ ret' = "Invalid parameters"
         /\ UNCHANGED <<initial_balance, current_balance, trading_fee, positions,
                        trades, daily_reports, files, today, start_date,
                        last_report_date, save_error, stop_signal>>
    ELSE ExecuteSellOrder(symbol, quantity, current_price)

ToolBuy ==
    \E usd_amount \in ToolUsdAmounts, current_price \in ToolPrices :
        ToolExecuteBuyOrder("BTCUSDT", usd_amount, current_price)

ToolSell ==
    \E quantity \in ToolQuantities \cup
                    (IF "BTCUSDT" \in DOMAIN positions
                     THEN {positions["BTCUSDT"].quantity} ELSE {}) :
        ToolExecuteSellOrder("BTCUSDT", quantity, 300)

\* get_current_portfolio_value(current_prices), as get_portfolio_summary calls
\* it: the priced positions are revalued in memory, nothing is saved, and the
\* total is returned (kept in the record of the call).
Valuation ==
    \E current_prices \in PriceMaps :
        /\ call' = [op |-> "valuation", prices |-> current_prices,
                    value |-> GetCurrentPortfolioValue(current_prices)]
        /\ ret' = "Value"
        /\ positions' = Revalued(current_prices)
        /\ UNCHANGED <<initial_balance, current_balance, trading_fee, trades,
                       daily_reports, files, today, start_date, last_report_date,
                       save_error, stop_signal>>

\* A reset that leaves the files of the old lifecycle where they are.
RemoveFiles_Mut == files

\* `for file in [...]: if os.path.exists(file): os.remove(file)`
RemoveFiles == [name \in DOMAIN files |-> NoFile]

\* reset_portfolio(new_initial_balance)
ResetPortfolio(new_initial_balance) ==
    LET balance == IF new_initial_balance # NoBalance THEN new_initial_balance
                                                      ELSE initial_balance
    IN  /\ call' = [op |-> "reset", balance |-> new_initial_balance]
        /\ ret' = "None"
        /\ initial_balance' = balance
        /\ current_balance' = balance
        /\ positions' = <<>>
        /\ trades' = <<>>
        /\ daily_reports' = <<>>
        /\ start_date' = today
        /\ last_report_date' = NoDate
        /\ files' = RemoveFiles
        /\ UNCHANGED <<trading_fee, today, save_error, stop_signal>>

Reset ==
    \E new_initial_balance \in ResetBalances : ResetPortfolio(new_initial_balance)

\* A process interrupt (SIGINT) is sent to the process that owns the ledger;
\* it is raised as KeyboardInterrupt inside the next save.
SendStopSignal ==
    /\ ~stop_signal
    /\ stop_signal' = TRUE
    /\ UNCHANGED <<initial_balance, current_balance, trading_fee, positions, trades,
                   daily_reports, files, call, ret, today, start_date,
                   last_report_date, save_error>>

\* The process runs until a KeyboardInterrupt ends it.
Alive == ret # "KeyboardInterrupt"

\* The interrupt the model follows is one that arrives during a save: once
\* it is on its way, an order or a report is the next operation.
Quiet == ~stop_signal

InitAccount == LedgerIdle /\ SchedIdle /\ RetryIdle /\ ThreadsIdle /\ BinanceIdle /\ CrewIdle /\ TicksIdle

NextAccount ==
    \/ FirstProcess /\ Alive /\ ToolBuy /\ UNCHANGED <<sched_vars, retry_vars, thread_vars, binance_vars, crew_vars, tick_vars>>
    \/ FirstProcess /\ Alive /\ ToolSell /\ UNCHANGED <<sched_vars, retry_vars, thread_vars, binance_vars, crew_vars, tick_vars>>
    \/ FirstProcess /\ Alive /\ Quiet /\ Valuation /\ UNCHANGED <<sched_vars, retry_vars, thread_vars, binance_vars, crew_vars, tick_vars>>
    \/ FirstProcess /\ Alive /\ ReportIfDue /\ UNCHANGED <<sched_vars, retry_vars, thread_vars, binance_vars, crew_vars, tick_vars>>
    \/ FirstProcess /\ Alive /\ Quiet /\ Reset /\ UNCHANGED <<sched_vars, retry_vars, thread_vars, binance_vars, crew_vars, tick_vars>>
    \/ FirstProcess /\ Alive /\ SendStopSignal /\ UNCHANGED <<sched_vars, retry_vars, thread_vars, binance_vars, crew_vars, tick_vars>>
    \/ Restart /\ UNCHANGED <<sched_vars, retry_vars, thread_vars, binance_vars, crew_vars, tick_vars>>

SpecAccount == InitAccount /\ [][NextAccount]_vars

RECURSIVE CashFlow(_)
\* The cash the orders of a trade log moved: minus the amount of every buy,
\* plus the net proceeds of every sell.
CashFlow(log) ==
    IF log = <<>> THEN 0
    ELSE LET trade == Head(log)
         IN  (IF trade.side = "BUY" THEN 0 - trade.value
                                    ELSE trade.value - trade.fee)
               + CashFlow(Tail(log))

\* Whether three files are the save of one state of the ledger: none exists
\* (nothing was saved yet), or all exist, each whole, with the cash of the
\* snapshot the one the persisted trade log accounts for.
OneSnapshot(f) ==
    \/ \A name \in DOMAIN f : ~f[name].exists
    \/ /\ \A name \in DOMAIN f : f[name].exists /\ ~Torn(f[name])
       /\ f.portfolio.current_balance
             = f.portfolio.initial_balance + CashFlow(f.trades.data)

\* C21: an interrupt that ends the process while an operation saves leaves the
\* files as the whole state before the operation or the whole state after it:
\* no file is left partially written, and snapshot and trade log never come
\* from different operations.
C21_InterruptedSaveIsAllOrNothing ==
    [][(/\ ret' = "KeyboardInterrupt"
        /\ ret # "KeyboardInterrupt"
        /\ OneSnapshot(files))
       => OneSnapshot(files')]_vars

\* C22: a save that fails during an accepted buy, sell or report does not fail
\* or undo the operation: it returns its Trade or DailyReport and cash,
\* positions, trade log and report log hold the effect of the operation.
C22_SaveFailureKeepsOperation ==
    [][(save_error' /\ today' = today) =>
         /\ (call'.op = "buy" /\ current_balance >= call'.amount) =>
               LET trade == trades'[Len(trades')]
                   held == IF call'.symbol \in DOMAIN positions
                           THEN positions[call'.symbol].quantity ELSE 0
               IN  /\ ret' = "Trade"
                   /\ trades' = Append(trades, trade)
                   /\ trade.side = "BUY" /\ trade.value = call'.amount
                   /\ current_balance' = current_balance - call'.amount
                   /\ call'.symbol \in DOMAIN positions'
                   /\ positions'[call'.symbol].quantity = held + trade.quantity
                   /\ daily_reports' = daily_reports
         /\ (/\ call'.op = "sell"
             /\ call'.symbol \in DOMAIN positions
             /\ positions[call'.symbol].quantity >= call'.amount) =>
               LET trade == trades'[Len(trades')]
                   left == positions[call'.symbol].quantity - call'.amount
               IN  /\ ret' = "Trade"
                   /\ trades' = Append(trades, trade)
                   /\ trade.side = "SELL" /\ trade.quantity = call'.amount
                   /\ current_balance' = current_balance + trade.value - trade.fee
                   /\ IF left <= Epsilon
                      THEN call'.symbol \notin DOMAIN positions'
                      ELSE /\ call'.symbol \in DOMAIN positions'
                           /\ positions'[call'.symbol].quantity = left
                   /\ daily_reports' = daily_reports
         /\ call'.op = "report" =>
               /\ ret' = "Report"
               /\ Len(daily_reports') = Len(daily_reports) + 1
               /\ SubSeq(daily_reports', 1, Len(daily_reports)) = daily_reports
               /\ daily_reports'[Len(daily_reports')].date = IsoFormat(today)
               /\ last_report_date' = today
               /\ UNCHANGED <<current_balance, trades>>]_vars

\* A sell and a report went through although their saves failed: the files
\* hold less than the logs in memory.
C22_Witness ==
    /\ save_error
    /\ ret = "Report"
    /\ Len(trades) = 2 /\ trades[2].side = "SELL"
    /\ ~files.trades.exists \/ Len(files.trades.data) < 2
    /\ ~files.reports.exists \/ files.reports.data # daily_reports

\* C24: reset_portfolio starts a new lifecycle from any state: cash is the
\* initial balance (the new one when given, else the previous one), positions,
\* trade log and report log are empty, a daily report is due again and none of
\* the three files exists, so that a restart right after it restores nothing.
C24_ResetStartsNewLifecycle ==
    [][/\ (call'.op = "reset" /\ stop_signal' = stop_signal) =>
            /\ initial_balance' = IF call'.balance # NoBalance THEN call'.balance
                                                               ELSE initial_balance
            /\ current_balance' = initial_balance'
            /\ positions' = <<>>
            /\ trades' = <<>>
            /\ daily_reports' = <<>>
            /\ ShouldGenerateDailyReport'
            /\ \A name \in DOMAIN files' : ~files'[name].exists
       /\ (call.op = "reset" /\ call'.op = "restart") =>
            /\ current_balance' = initial_balance'
            /\ positions' = <<>>
            /\ trades' = <<>>
            /\ daily_reports' = <<>>
            /\ last_report_date' = NoDate]_vars

\* A reset to a new balance of a ledger that had saved before (the save of
\* one of its operations had failed).
C24_Witness ==
    /\ call.op = "reset"
    /\ call.balance = 50000
    /\ current_balance = 50000
    /\ save_error
    /\ files.portfolio = NoFile

\* C25: a valuation returns cash plus the current value of ALL open positions,
\* those missing from the price map included at their last known price.
C25_ValuationCountsEveryPosition ==
    call.op = "valuation" =>
        call.value = current_balance + PositionsValue(positions, DOMAIN positions)

\* C26: every position of the position map has a quantity that is not below
\* epsilon, whichever operation produced it.
C26_NoPositionBelowEpsilon ==
    \A symbol \in DOMAIN positions : positions[symbol].quantity >= Epsilon

\* C27: the trade log is append-only and exact: an accepted order appends one
\* Trade with quantity > 0 and price > 0 to its end, a rejected order leaves it
\* as it is, and among the operations of a ledger only reset removes entries.
C27_TradeLogAppendOnly ==
    [][/\ \/ trades' = trades
          \/ /\ call'.op \in {"buy", "sell"}
             /\ ret' \in {"Trade", "KeyboardInterrupt"}
             /\ Len(trades') = Len(trades) + 1
             /\ SubSeq(trades', 1, Len(trades)) = trades
             /\ trades'[Len(trades')].quantity > 0
             /\ trades'[Len(trades')].price > 0
          \/ call'.op = "reset" /\ trades' = <<>>
          \/ call'.op = "restart"
       /\ (call'.op \in {"buy", "sell"} /\ ret' \in {"None", "Invalid parameters"})
             => trades' = trades
       /\ (/\ call'.op \in {"buy", "sell"} /\ ret' = "Trade"
           /\ stop_signal' = stop_signal)
             => Len(trades') = Len(trades) + 1]_vars

\* A buy and a sell are in the log and the order after them was refused by
\* the tool.
C27_Witness ==
    /\ Len(trades) = 2
    /\ trades[1].side = "BUY" /\ trades[2].side = "SELL"
    /\ ret = "Invalid parameters"

RECURSIVE BoughtValue(_)
\* The sum of quantity * price over the BUY trades of a log.
BoughtValue(log) ==
    IF log = <<>> THEN 0
    ELSE (IF Head(log).side = "BUY" THEN Head(log).quantity * Head(log).price ELSE 0)
           + BoughtValue(Tail(log))

RECURSIVE RoundingOf(_)
\* What the division of the net amounts by the price can lose over a log: less
\* than one quantity unit, that is less than `price`, for each trade.
RoundingOf(log) ==
    IF log = <<>> THEN 0 ELSE Head(log).price + RoundingOf(Tail(log))

RECURSIVE TotalCost(_, _)
\* The sum of total_cost over the symbols S of pos.
TotalCost(pos, S) ==
    IF S = {} THEN 0
    ELSE LET symbol == CHOOSE x \in S : TRUE
         IN  pos[symbol].total_cost + TotalCost(pos, S \ {symbol})

\* C28: after accepted buys only, on a fresh ledger, the sum of quantity * price
\* over the BUY trades equals the sum of total_cost over the positions, within
\* the rounding of the quantities.
C28_BoughtValueIsTotalCost ==
    (\A i \in 1..Len(trades) : trades[i].side = "BUY") =>
        LET residue == TotalCost(positions, DOMAIN positions) - BoughtValue(trades)
        IN  /\ residue >= 0
            /\ trades = <<>> => residue = 0
            /\ trades # <<>> => residue < RoundingOf(trades)

\* Two buys with a fee, of one symbol or of two.
C28_Witness ==
    /\ Len(trades) = 2
    /\ trades[1].side = "BUY" /\ trades[2].side = "BUY"
    /\ trades[1].fee > 0
    /\ trades[1].price # trades[2].price
    /\ TotalCost(positions, DOMAIN positions) = 63000

\* C29: every report of the log starts from the ending value of the report
\* before it, or from initial_balance when it is the first; its daily P&L is
\* ending - starting and its cumulative P&L is ending - initial_balance.
C29_ReportsChain ==
    \A i \in 1..Len(daily_reports) :
        LET report == daily_reports[i]
        IN  /\ report.starting_balance =
                  IF i = 1 THEN initial_balance
                           ELSE daily_reports[i - 1].ending_balance
            /\ report.daily_pnl = report.ending_balance - report.starting_balance
            /\ report.total_pnl = report.ending_balance - initial_balance

\* Two reports, the first of which ended away from the initial balance and
\* the second of which ended elsewhere again.
C29_Witness ==
    /\ Len(daily_reports) = 2
    /\ daily_reports[1].ending_balance # initial_balance
    /\ daily_reports[2].daily_pnl # 0
    /\ daily_reports[2].starting_balance = daily_reports[1].ending_balance

\* C30: a stop signal raised at any point of a tick (at the top of the loop,
\* during the analysis, during the interval sleep or during the one-minute
\* wait after a tick error) ends the loop, and nothing of the scheduler moves
\* after it: no further tick is started.
C30_StopSignalEndsLoop ==
    [][/\ interrupted' => pc' = "stopped"
       /\ pc = "stopped" => UNCHANGED sched_vars]_vars

\* The loop was stopped during an analysis, in a run in which the error of an
\* earlier tick had been logged and waited for.
C30_Witness ==
    /\ interrupted
    /\ pc = "stopped"
    /\ analysis_level # "none"
    /\ "error" \in DOMAIN result

(***************************************************************************)
(*            Two threads on one PortfolioSimulator                        *)
(*                                                                         *)
(* SpecThreads lets two threads each execute one order on the same ledger, *)
(* after at most one buy made before they start.  PortfolioSimulator has   *)
(* no lock.  An order is two steps: its checks, and, after the calls that  *)
(* build the Trade (where the interpreter may switch threads), its         *)
(* effects.  The effects are taken as one step, which leaves out the       *)
(* interleavings inside them.                                              *)
(***************************************************************************)

\* The orders the threads execute.
ThreadUsdAmounts == {60000}
ThreadQuantities == {30, 45}

\* The buy made before the threads start.
ThreadsSeed ==
    /\ \A t \in Threads : threads[t].pc = "idle"
    /\ trades = <<>>
    /\ ExecuteBuyOrder("BTCUSDT", 10000, 200)
    /\ UNCHANGED threads

\* execute_buy_order up to the funds check, in thread t.
ThreadCheckBuy(t) ==
    \E usd_amount \in ThreadUsdAmounts :
        /\ threads[t].pc = "idle"
        /\ threads' = [threads EXCEPT ![t] =
              [pc |-> IF InsufficientBalance(usd_amount) THEN "done" ELSE "checked",
               op |-> "buy", symbol |-> "BTCUSDT", amount |-> usd_amount,
               price |-> 200,
               ret |-> IF InsufficientBalance(usd_amount) THEN "None" ELSE "running"]]
        /\ UNCHANGED ledger_vars

\* execute_buy_order from `self.current_balance -= usd_amount` to its return.
ThreadCommitBuy(t) ==
    LET order == threads[t]
        fee == Fee(order.amount, trading_fee)
        quantity == BuyQuantity(order.amount, fee, order.price)
        trade == [trade_id |-> TradeId("BUY", order.symbol, today, clock),
                  timestamp |-> today, side |-> "BUY", symbol |-> order.symbol,
                  quantity |-> quantity, price |-> order.price,
                  value |-> order.amount, fee |-> fee]
        balance2 == current_balance - order.amount
        positions2 == Put(positions, order.symbol,
                          PositionAfterBuy(order.symbol, quantity,
                                           order.amount - fee, order.price))
        trades2 == Append(trades, trade)
    IN  /\ order.pc = "checked" /\ order.op = "buy"
        /\ current_balance' = balance2
        /\ positions' = positions2
        /\ trades' = trades2
        /\ \E written \in SaveOutcomes :
              /\ files' = SaveState(balance2, positions2, trades2, daily_reports,
                                    written)
              /\ save_error' = (written < 3)
        /\ threads' = [threads EXCEPT ![t].pc = "done", ![t].ret = "Trade"]
        /\ UNCHANGED <<initial_balance, trading_fee, daily_reports, call, ret, today,
                       start_date, last_report_date, stop_signal>>

\* execute_sell_order up to the quantity check, in thread t.  The local
\* `position` is the object the map holds.
ThreadCheckSell(t) ==
    \E quantity \in ThreadQuantities :
        LET refused == NoPosition("BTCUSDT")
                          \/ InsufficientQuantity("BTCUSDT", quantity)
        IN  /\ threads[t].pc = "idle"
            /\ threads' = [threads EXCEPT ![t] =
                  [pc |-> IF refused THEN "done" ELSE "checked",
                   op |-> "sell", symbol |-> "BTCUSDT", amount |-> quantity,
                   price |-> 200,
                   ret |-> IF refused THEN "None" ELSE "running"]]
            /\ UNCHANGED ledger_vars

\* execute_sell_order from `self.current_balance += net_proceeds` to its
\* return.  When the other thread has closed the position in between, the
\* local `position` is no longer in the map: its quantity falls below zero and
\* `del self.positions[symbol]` raises KeyError, which `except Exception`
\* turns into `return None`, after the cash was credited.
ThreadCommitSell(t) ==
    LET order == threads[t]
        gross_proceeds == order.amount * order.price
        fee == Fee(gross_proceeds, trading_fee)
        balance2 == current_balance + NetProceeds(gross_proceeds, fee)
        trade == [trade_id |-> TradeId("SELL", order.symbol, today, clock),
                  timestamp |-> today, side |-> "SELL", symbol |-> order.symbol,
                  quantity |-> order.amount, price |-> order.price,
                  value |-> gross_proceeds, fee |-> fee]
    IN  /\ order.pc = "checked" /\ order.op = "sell"
        /\ current_balance' = balance2
        /\ IF order.symbol \in DOMAIN positions
           THEN LET position == positions[order.symbol]
                    remaining == position.quantity - order.amount
                    positions2 ==
                        IF NegligibleQuantity(remaining)
                        THEN Del(positions, order.symbol)
                        ELSE Put(positions, order.symbol,
                                 [position EXCEPT
                                    !.quantity = remaining,
                                    !.total_cost = (position.total_cost * remaining)
                                                      \div (remaining + order.amount)])
                    trades2 == Append(trades, trade)
                IN  /\ positions' = positions2
                    /\ trades' = trades2
                    /\ \E written \in SaveOutcomes :
                          /\ files' = SaveState(balance2, positions2, trades2,
                                                daily_reports, written)
                          /\ save_error' = (written < 3)
                    /\ threads' = [threads EXCEPT ![t].pc = "done",
                                                  ![t].ret = "Trade"]
           ELSE /\ threads' = [threads EXCEPT ![t].pc = "done", ![t].ret = "None"]
                /\ UNCHANGED <<positions, trades, files, save_error>>
        /\ UNCHANGED <<initial_balance, trading_fee, daily_reports, call, ret, today,
                       start_date, last_report_date, stop_signal>>

InitThreads == LedgerIdle /\ SchedIdle /\ RetryIdle /\ ThreadsIdle /\ BinanceIdle /\ CrewIdle /\ TicksIdle

NextThreads ==
    \/ ThreadsSeed /\ UNCHANGED <<sched_vars, retry_vars, binance_vars, crew_vars, tick_vars>>
    \/ \E t \in Threads : ThreadCheckBuy(t) /\ UNCHANGED <<sched_vars, retry_vars, binance_vars, crew_vars, tick_vars>>
    \/ \E t \in Threads : ThreadCommitBuy(t) /\ UNCHANGED <<sched_vars, retry_vars, binance_vars, crew_vars, tick_vars>>
    \/ \E t \in Threads : ThreadCheckSell(t) /\ UNCHANGED <<sched_vars, retry_vars, binance_vars, crew_vars, tick_vars>>
    \/ \E t \in Threads : ThreadCommitSell(t) /\ UNCHANGED <<sched_vars, retry_vars, binance_vars, crew_vars, tick_vars>>

SpecThreads == InitThreads /\ [][NextThreads]_vars

RECURSIVE QuantityOf(_, _)
\* The sum of the quantities of the trades of one side of a log.
QuantityOf(log, side) ==
    IF log = <<>> THEN 0
    ELSE (IF Head(log).side = side THEN Head(log).quantity ELSE 0)
           + QuantityOf(Tail(log), side)

\* C23: orders issued concurrently against one ledger leave the state some
\* serial order of them leaves: the buys that passed the funds check never
\* drive the cash below zero, the sells never sell more than was held, and
\* every accepted trade is in the cash, the position and the trade log.
C23_ConcurrentOrdersAreSerial ==
    /\ current_balance >= 0
    /\ QuantityOf(trades, "SELL") <= QuantityOf(trades, "BUY")
    /\ current_balance = initial_balance + CashFlow(trades)
    /\ \A symbol \in DOMAIN positions : positions[symbol].quantity >= 0

(***************************************************************************)
(*          BinanceRapidApiTool (tools/binance_rapidapi_tool.py)           *)
(***************************************************************************)

\* Bound of the tool's model: the HTTP requests issued.
MaxRequests == 2

\* The actions _run knows, and one it does not know.
KnownActions == {"get_kline_data", "get_symbol_price_ticker", "get_24hr_ticker"}
ToolActions == KnownActions \cup {"non_existent_action"}

\* The values a caller puts into `parameters`: a string, or a value that is
\* no string and that pydantic does not turn into one.
ParameterValues == {[type |-> "str", value |-> "BTCUSDT"],
                    [type |-> "list", value |-> "[]"]}

\* The `parameters` dictionaries of the model: every choice of the keys.
ParameterKeys == {"symbol", "interval"}
ToolParameters == UNION {[keys -> ParameterValues] : keys \in SUBSET ParameterKeys}

\* What the server does with a request: an answer with a status and a body
\* (a JSON body or not), or no answer at all (requests.get raises).
NoResponse == [kind |-> "none", status |-> 0, body |-> "", json |-> FALSE]
Responses ==
    {[kind |-> "response", status |-> 200, body |-> "[[1, 2]]", json |-> TRUE],
     [kind |-> "response", status |-> 200, body |-> "<html>", json |-> FALSE],
     [kind |-> "response", status |-> 404, body |-> "Not Found", json |-> FALSE],
     [kind |-> "response", status |-> 500, body |-> "{\"msg\": \"down\"}", json |-> TRUE],
     [kind |-> "ConnectionError", status |-> 0, body |-> "", json |-> FALSE]}

\* The fields of the input class of an action: name -> whether it is required.
\* (The optional integer fields of KlineDataInput are never passed here.)
InputFields(action) ==
    IF action = "get_kline_data"
    THEN [symbol |-> TRUE, interval |-> TRUE]
    ELSE [symbol |-> FALSE]

\* KlineDataInput(**parameters), SymbolPriceTickerInput(**parameters),
\* Ticker24hrInput(**parameters): whether pydantic accepts the parameters.
\* A required field is present, and every field present is a string; the
\* keys that are no fields of the class are ignored.
Validates(action, parameters) ==
    \A field \in DOMAIN InputFields(action) :
        /\ InputFields(action)[field] => field \in DOMAIN parameters
        /\ field \in DOMAIN parameters => parameters[field].type = "str"

\* validated_params.model_dump(exclude_none=True): the fields that were given.
ModelDump(action, parameters) ==
    [field \in DOMAIN InputFields(action) \cap DOMAIN parameters |-> parameters[field]]

\* self.kline_endpoint_path and the two other endpoint paths.
EndpointPath(action) ==
    IF action = "get_kline_data" THEN "/klines"
    ELSE IF action = "get_symbol_price_ticker" THEN "/ticker/price"
    ELSE "/ticker/24hr"

\* A call that returned a string (a sequence of its pieces), and one that raised.
Returned(text) == [raised |-> FALSE, text |-> text]
Raised(exception) == [raised |-> TRUE, text |-> <<exception>>]

\* response.raise_for_status() raises HTTPError for the 4xx and 5xx statuses.
RaiseForStatus(response) == response.status >= 400

HttpErrorText_Mut(response, endpoint_path, query_params) ==
    <<"HTTP Error: ", ToString(response.status), " - ", "",
      " for URL: ", endpoint_path, " with params: ", ToString(query_params)>>

\* The string of `except requests.exceptions.HTTPError as e`.
HttpErrorText(response, endpoint_path, query_params) ==
    <<"HTTP Error: ", ToString(response.status), " - ", response.body,
      " for URL: ", endpoint_path, " with params: ", ToString(query_params)>>

\* _make_request, after requests.get got `response` (or raised).
MakeRequest(endpoint_path, query_params, response) ==
    IF response.kind # "response"
    THEN Returned(<<"Error making request to ", endpoint_path, ": ", response.kind>>)
    ELSE IF RaiseForStatus(response)
    THEN Returned(HttpErrorText(response, endpoint_path, query_params))
    ELSE IF ~response.json
    THEN Returned(<<"Error making request to ", endpoint_path, ": ", "JSONDecodeError">>)
    ELSE Returned(<<response.body>>)

\* Whether _run gets as far as requests.get.
IssuesRequest(action, parameters) ==
    action \in KnownActions /\ Validates(action, parameters)

\* `except Exception as e` in a branch of _run.
ProcessingErrorText(action, exception, parameters) ==
    <<"Error processing '", action, "': Invalid parameters or other issue. ",
      exception, ". Parameters: ", ToString(parameters)>>

\* BinanceRapidApiTool._run(action, parameters).
ToolRun(action, parameters, response) ==
    IF action \notin KnownActions
    THEN Returned(<<"Error: Invalid action '", action, "' specified.">>)
    ELSE IF ~Validates(action, parameters)
    THEN Returned(ProcessingErrorText(action, "ValidationError", parameters))
    ELSE LET made == MakeRequest(EndpointPath(action),
                                 ModelDump(action, parameters), response)
         IN  IF made.raised
             THEN Returned(ProcessingErrorText(action, made.text[1], parameters))
             ELSE made

\* One call of the tool.
Run ==
    \E action \in ToolActions, parameters \in ToolParameters, response \in Responses :
        /\ Len(tool_requests) < MaxRequests
        /\ tool_call' = [action |-> action, parameters |-> parameters,
                         response |-> IF IssuesRequest(action, parameters)
                                      THEN response ELSE NoResponse]
        /\ tool_requests' =
               IF IssuesRequest(action, parameters)
               THEN Append(tool_requests,
                           [endpoint_path |-> EndpointPath(action),
                            params |-> ModelDump(action, parameters)])
               ELSE tool_requests
        /\ tool_result' = ToolRun(action, parameters, response)

InitBinance ==
    BinanceIdle /\ LedgerIdle /\ SchedIdle /\ RetryIdle /\ ThreadsIdle /\ CrewIdle /\ TicksIdle

NextBinance ==
    Run /\ UNCHANGED <<ledger_vars, sched_vars, retry_vars, thread_vars, crew_vars, tick_vars>>

SpecBinance == InitBinance /\ [][NextBinance]_vars

\* Whether a returned string has the pieces, in this order and adjacent.
HasPieces(text, pieces) ==
    \E i \in 0..(Len(text) - Len(pieces)) :
        \A j \in 1..Len(pieces) : text[i + j] = pieces[j]

\* C31: _run reports every failure as a returned string and never raises.  An
\* unknown action gives "Error: Invalid action '<action>' specified." and
\* parameters that fail validation give an "Error processing '<action>'"
\* string, both without an HTTP request; an HTTP error response gives a
\* string with "HTTP Error: <status>" and the body of the response.
C31_FailuresAreReturnedStrings ==
    [][binance_vars' # binance_vars =>
        LET action == tool_call'.action
            parameters == tool_call'.parameters
            response == tool_call'.response
            text == tool_result'.text
        IN  /\ ~tool_result'.raised
            /\ action \notin KnownActions =>
                   /\ text = <<"Error: Invalid action '", action, "' specified.">>
                   /\ tool_requests' = tool_requests
            /\ (action \in KnownActions /\ ~Validates(action, parameters)) =>
                   /\ HasPieces(text, <<"Error processing '", action>>)
                   /\ tool_requests' = tool_requests
            /\ (response.kind = "response" /\ response.status >= 400) =>
                   /\ HasPieces(text, <<"HTTP Error: ", ToString(response.status)>>)
                   /\ HasPieces(text, <<response.body>>)]_vars

\* The second request was answered with 404 Not Found, and the call returned
\* the HTTP error string.
C31_Witness ==
    /\ tool_call # NoCall
    /\ tool_call.response.status = 404
    /\ Len(tool_requests) = 2
    /\ HasPieces(tool_result.text, <<"HTTP Error: ", "404", " - ", "Not Found">>)

(***************************************************************************)
(*                 Claims on the scheduler's last-run times                *)
(***************************************************************************)

\* The last-run times determine_analysis_level reads.
Timers == {"full", "medium", "quick"}

\* A step of the loop that executed the analysis at the determined level.
TickExecuted == pc = "analysis" /\ pc' = "sleep"

\* The recorded last-run time of a level is left as it was.
TimerKept(l) ==
    /\ l \in DOMAIN last_analysis' <=> l \in DOMAIN last_analysis
    /\ l \in DOMAIN last_analysis => last_analysis'[l] = last_analysis[l]

\* C32, as stated: a tick run at level L changes the last-run time of L only,
\* and a MONITOR tick changes no recorded last-run time at all.
C32_MonitorRecordsNothing ==
    [][TickExecuted =>
         /\ \A l \in Levels \ {analysis_level} : TimerKept(l)
         /\ analysis_level = "monitor" => last_analysis' = last_analysis]_vars

\* C32, amended: a tick run at level L records the time of the run under L and
\* leaves the last-run time of every other level as it was; for a MONITOR tick
\* the entry written is the one under "monitor", which no level decision reads,
\* and the three timers FULL, MEDIUM and QUICK stay as they were.
C32_OnlyTheExecutedLevelIsStamped ==
    [][TickExecuted =>
         /\ \A l \in Levels \ {analysis_level} : TimerKept(l)
         /\ analysis_level \in DOMAIN last_analysis'
         /\ last_analysis'[analysis_level] = now'
         /\ analysis_level = "monitor" => \A l \in Timers : TimerKept(l)]_vars

\* A MEDIUM run came after a FULL run and a later MONITOR tick after both: the
\* three entries bear three different times.
C32_Witness ==
    /\ pc = "sleep"
    /\ result.level = "monitor"
    /\ {"full", "medium", "monitor"} \subseteq DOMAIN last_analysis
    /\ last_analysis["full"] < last_analysis["medium"]
    /\ last_analysis["medium"] < last_analysis["monitor"]
    /\ last_analysis["monitor"] = now

(***************************************************************************)
(*                     Claims on the positions' fields                     *)
(***************************************************************************)

\* What the integer divisions can take from total_cost - quantity * avg_price:
\* less than one quantity unit at avg_price (quantity = net_amount / price), or
\* less than one money unit of avg_price on each unit held
\* (avg_price = total_cost / total_quantity).
PositionRounding(position) ==
    IF position.quantity > position.avg_price THEN position.quantity
    ELSE position.avg_price

\* C33: after every accepted buy or sell each open position has
\* total_cost = quantity * avg_price, within rounding: after a first buy, a
\* repeated buy at another price and a partial sell.
C33_TotalCostIsQuantityTimesAverage ==
    \A symbol \in DOMAIN positions :
        LET position == positions[symbol]
            residue == position.total_cost - position.quantity * position.avg_price
        IN  residue >= 0 /\ residue < PositionRounding(position)

\* A second buy of a symbol at a higher price, with a fee: the average price
\* lies between the two prices.
C33_Witness ==
    /\ Len(trades) = 2
    /\ trades[1].side = "BUY" /\ trades[2].side = "BUY"
    /\ trades[1].symbol = trades[2].symbol
    /\ trades[1].price < trades[2].price
    /\ trades[1].fee > 0
    /\ positions[trades[1].symbol].avg_price > trades[1].price
    /\ positions[trades[1].symbol].avg_price < trades[2].price
    /\ ret = "Trade"

(***************************************************************************)
(*                  Claims on the cash and the trade log                   *)
(***************************************************************************)

\* The cash is what the trade log accounts for.
CashMatchesTrades == current_balance = initial_balance + CashFlow(trades)

\* C34: cash = initial_balance - (sum of value over the BUY trades)
\* + (sum of value - fee over the SELL trades): it holds for a ledger created
\* without files and after a reset, and every operation of the running ledger
\* (buy, sell, valuation, report, also one whose save fails or is interrupted)
\* keeps it.
C34_CashIsReconstructible ==
    [][/\ (call'.op = "restart" /\ \A name \in DOMAIN files : ~files[name].exists)
            => CashMatchesTrades'
       /\ call'.op = "reset" => CashMatchesTrades'
       /\ (call'.op # "restart" /\ CashMatchesTrades) => CashMatchesTrades']_vars

\* After a reset to a new balance, a buy and a sell with a fee were accepted.
C34_Witness ==
    /\ initial_balance = 50000
    /\ Len(trades) = 2
    /\ trades[1].side = "BUY" /\ trades[2].side = "SELL"
    /\ trades[2].fee > 0
    /\ call.op = "sell"
    /\ ret = "Trade"
    /\ current_balance # initial_balance
    /\ CashMatchesTrades

(***************************************************************************)
(*                    Claims on the daily token budget                     *)
(***************************************************************************)

\* C35: the day's counter changes only by a reset to zero or by the addition of
\* the fixed cost of the level run on this tick, and a tick adds it only when
\* it started with the counter below the daily limit; so the counter is always
\* below the limit + the cost of a FULL run.
C35_OvershootIsBounded ==
    [][/\ token_usage_today' # token_usage_today =>
            \/ token_usage_today' = 0
            \/ /\ pc = "analysis"
               /\ analysis_level # "monitor"
               /\ token_usage_today < max_daily_tokens
               /\ token_usage_today' =
                      token_usage_today + TokenCost(scheduler, analysis_level)
       /\ token_usage_today' < max_daily_tokens + TokenCost(scheduler, "full")]_vars

\* A FULL run started below the limit and took the counter over it.
C35_Witness ==
    /\ pc = "sleep"
    /\ result = [level |-> "full", action |-> "full",
                 tokens_used |-> TokenCost(scheduler, "full")]
    /\ token_usage_today >= max_daily_tokens
    /\ token_usage_today > TokenCost(scheduler, "full")

(***************************************************************************)
(*                    Claims on the order of the levels                    *)
(***************************************************************************)

\* The runner was invoked on the last executed tick and raised.
LastRunFailed == "error" \in DOMAIN result /\ result.error = "raised"

\* C36: a run at level L whose runner fails records L's last-run time as a
\* successful one does; with no unusual activity the level that failed is
\* selected again only when its interval * scale has elapsed since the failed
\* attempt, so not on the tick that follows it; a level with a recorded
\* last-run time, of a failed run or not, is selected by its timer only when
\* that much time has elapsed since the time recorded.
C36_FailedRunIsStamped ==
    [][/\ (TickExecuted /\ runner_outcome' = "raised") =>
            /\ result'.level = analysis_level
            /\ LastRunFailed'
            /\ analysis_level \in DOMAIN last_analysis'
            /\ last_analysis'[analysis_level] = now'
       /\ (/\ pc = "top" /\ pc' = "analysis"
           /\ LastRunFailed
           /\ ~market_condition'.unusual_activity
           /\ analysis_level' = result.level) =>
            /\ result.level \in DOMAIN last_analysis
            /\ (now - last_analysis[result.level]) * Scale(now)[2]
                   >= Interval(result.level) * Scale(now)[1]
       /\ (/\ pc = "top" /\ pc' = "analysis"
           /\ ~market_condition'.unusual_activity
           /\ analysis_level' \in Timers \cap DOMAIN last_analysis) =>
            (now - last_analysis[analysis_level']) * Scale(now)[2]
                >= Interval(analysis_level') * Scale(now)[1]]_vars

\* A QUICK run failed and the tick that follows it, one monitor interval
\* later and with budget left, did not select QUICK again but MONITOR.
C36_Witness ==
    /\ pc = "analysis"
    /\ analysis_level = "monitor"
    /\ ~market_condition.unusual_activity
    /\ result = [level |-> "quick", error |-> "raised"]
    /\ runner_outcome = "raised"
    /\ "quick" \in DOMAIN last_analysis
    /\ now - last_analysis["quick"] = monitor_interval
    /\ now - last_analysis["quick"] < quick_scan_interval

\* The scheduler's loop with its iterations counted: an iteration is begun by
\* the budget check at the top of the loop body, whichever way it goes.
InitFirstTicks == InitSched

NextFirstTicks ==
    \/ SimulationCompleted /\ UNCHANGED <<ledger_vars, retry_vars, thread_vars, binance_vars, crew_vars, tick_vars>>
    \/ BudgetLimitReached /\ ticks' = ticks + 1 /\ UNCHANGED <<ledger_vars, retry_vars, thread_vars, binance_vars, crew_vars>>
    \/ AssessAndDetermine /\ ticks' = ticks + 1 /\ UNCHANGED <<ledger_vars, retry_vars, thread_vars, binance_vars, crew_vars>>
    \/ ExecuteAnalysis /\ UNCHANGED <<ledger_vars, retry_vars, thread_vars, binance_vars, crew_vars, tick_vars>>
    \/ UnexpectedError /\ UNCHANGED <<ledger_vars, retry_vars, thread_vars, binance_vars, crew_vars, tick_vars>>
    \/ Sleep /\ UNCHANGED <<ledger_vars, retry_vars, thread_vars, binance_vars, crew_vars, tick_vars>>
    \/ ErrorWait /\ UNCHANGED <<ledger_vars, retry_vars, thread_vars, binance_vars, crew_vars, tick_vars>>
    \/ KeyboardInterrupt /\ UNCHANGED <<ledger_vars, retry_vars, thread_vars, binance_vars, crew_vars, tick_vars>>

SpecFirstTicks == InitFirstTicks /\ [][NextFirstTicks]_vars

\* A tick with budget left determines its level, with no unusual activity and
\* inside the active hours.
CalmTick ==
    /\ pc = "top" /\ pc' = "analysis"
    /\ ~market_condition'.unusual_activity
    /\ active_hours_start <= Hour(now) /\ Hour(now) <= active_hours_end

\* The tick before this one ran `level`, and one monitor interval has passed
\* since the end of that run.
FollowsRunOf(level) ==
    /\ result.level = level
    /\ level \in DOMAIN last_analysis
    /\ now - last_analysis[level] = monitor_interval

\* C37: from no recorded last-run times, with no unusual activity, budget left
\* and ticks inside the active hours, one monitor interval apart (shorter than
\* quick_scan_interval * scale), the first tick runs FULL, the second MEDIUM,
\* the third QUICK and the fourth is MONITOR.
C37_FirstTicksRunFullMediumQuick ==
    [][CalmTick =>
         /\ (ticks = 0 /\ last_analysis = <<>>) => analysis_level' = "full"
         /\ (ticks = 1 /\ DOMAIN last_analysis = {"full"} /\ FollowsRunOf("full"))
               => analysis_level' = "medium"
         /\ (ticks = 2 /\ DOMAIN last_analysis = {"full", "medium"}
               /\ FollowsRunOf("medium"))
               => analysis_level' = "quick"
         /\ (ticks = 3 /\ DOMAIN last_analysis = {"full", "medium", "quick"}
               /\ FollowsRunOf("quick"))
               => analysis_level' = "monitor"]_vars

\* The fourth tick determined MONITOR after FULL, MEDIUM and QUICK had run on
\* the three ticks before it, in this order.
C37_Witness ==
    /\ ticks = 4
    /\ pc = "analysis"
    /\ analysis_level = "monitor"
    /\ DOMAIN last_analysis = {"full", "medium", "quick"}
    /\ last_analysis["full"] < last_analysis["medium"]
    /\ last_analysis["medium"] < last_analysis["quick"]
    /\ now - last_analysis["quick"] = monitor_interval
    /\ result.level = "quick"

(***************************************************************************)
(*   TestModeCryptoTradingCrew and its base crew (test_mode_crew.py,       *)
(*   autonomous_crew.py): SpecCrew.  The ledger variables hold the         *)
(*   PortfolioSimulator whose tool is in use, other_ledger the other one.  *)
(***************************************************************************)

\* Bound of the crew's model: the seconds the clock advances.
MaxSeconds == 1

\* `PortfolioSimulator(initial_balance=10000.0)`, the default simulator of a
\* base crew that was given none; the amount the test crew's ledger starts with.
DefaultBalance == 100000

\* The crews whose agents hold a PortfolioSimulatorTool.
Crews == {"test_crew", "base_crew"}

\* The crew whose PortfolioSimulator the ledger variables hold.
ToolInUse ==
    IF other_ledger.exists /\ other_ledger.owner = "test_crew"
    THEN "base_crew" ELSE "test_crew"

\* The PortfolioSimulator the ledger variables hold, as the instance of `owner`.
ThisLedger(owner) ==
    [exists |-> TRUE, owner |-> owner,
     initial_balance |-> initial_balance, current_balance |-> current_balance,
     trading_fee |-> trading_fee, positions |-> positions, trades |-> trades,
     daily_reports |-> daily_reports, start_date |-> start_date,
     last_report_date |-> last_report_date]

\* TestModeCryptoTradingCrew.__init__ after its own PortfolioSimulator was made:
\* `self.base_crew = AutonomousCryptoTradingCrew(verbose=verbose)`, that is
\* paper_trading=True and portfolio_simulator=None, so the base crew makes a
\* default PortfolioSimulator and hands it to its tool manager.  No file
\* exists yet, so the new instance loads nothing.
CreateBaseCrew ==
    /\ other_ledger = NoLedger
    /\ \A name \in DOMAIN files : ~files[name].exists
    /\ other_ledger' = [exists |-> TRUE, owner |-> "base_crew",
                        initial_balance |-> DefaultBalance,
                        current_balance |-> DefaultBalance,
                        trading_fee |-> trading_fee, positions |-> <<>>,
                        trades |-> <<>>, daily_reports |-> <<>>,
                        start_date |-> today, last_report_date |-> NoDate]
    /\ UNCHANGED <<ledger_vars, clock>>

\* The sequential crew goes from a task of an agent of one crew (the base crew's
\* trade_executor, the test crew's portfolio_simulator_agent) to a task of an
\* agent of the other: the tool in use is now bound to the other instance.
NextTask ==
    /\ other_ledger.exists
    /\ initial_balance' = other_ledger.initial_balance
    /\ current_balance' = other_ledger.current_balance
    /\ trading_fee' = other_ledger.trading_fee
    /\ positions' = other_ledger.positions
    /\ trades' = other_ledger.trades
    /\ daily_reports' = other_ledger.daily_reports
    /\ start_date' = other_ledger.start_date
    /\ last_report_date' = other_ledger.last_report_date
    /\ other_ledger' = ThisLedger(ToolInUse)
    /\ UNCHANGED <<files, call, ret, today, save_error, stop_signal, clock>>

\* An agent of the crew gives an order to its portfolio tool.
CrewBuy == other_ledger.exists /\ ToolBuy /\ UNCHANGED crew_vars
CrewSell == other_ledger.exists /\ ToolSell /\ UNCHANGED crew_vars

\* The clock reaches the next second.
ClockTick ==
    /\ clock < MaxSeconds
    /\ clock' = clock + 1
    /\ UNCHANGED <<ledger_vars, other_ledger>>

InitCrew ==
    LedgerIdle /\ SchedIdle /\ RetryIdle /\ ThreadsIdle /\ BinanceIdle /\ CrewIdle /\ TicksIdle

NextCrew ==
    \/ CreateBaseCrew /\ UNCHANGED <<sched_vars, retry_vars, thread_vars, binance_vars, tick_vars>>
    \/ NextTask /\ UNCHANGED <<sched_vars, retry_vars, thread_vars, binance_vars, tick_vars>>
    \/ CrewBuy /\ UNCHANGED <<sched_vars, retry_vars, thread_vars, binance_vars, tick_vars>>
    \/ CrewSell /\ UNCHANGED <<sched_vars, retry_vars, thread_vars, binance_vars, tick_vars>>
    \/ ClockTick /\ UNCHANGED <<sched_vars, retry_vars, thread_vars, binance_vars, tick_vars>>

SpecCrew == InitCrew /\ [][NextCrew]_vars

\* The trade log of the PortfolioSimulator of a crew.
TradesOf(crew) ==
    IF ToolInUse = crew THEN trades
    ELSE IF other_ledger.exists THEN other_ledger.trades
    ELSE <<>>

\* Whether the sequence s is the beginning of the sequence t.
IsPrefix(s, t) ==
    /\ Len(s) <= Len(t)
    /\ \A i \in 1..Len(s) : s[i] = t[i]

\* C38: in test mode the ledger files have a single writer: every trade a
\* portfolio tool of the crew accepts is applied to the PortfolioSimulator of
\* TestModeCryptoTradingCrew, none to another instance, and no write replaces
\* the persisted trade log by one that lacks a trade it held.
C38_SingleWriterOfLedgerFiles ==
    [][/\ TradesOf("base_crew")' = <<>>
       /\ (files.trades.exists /\ files'.trades.exists)
             => IsPrefix(files.trades.data, files'.trades.data)]_vars

\* C40: no two entries of the trade log bear the same trade_id, two orders of
\* one side and one symbol accepted within one second included.
C40_TradeIdsAreUnique ==
    \A i, j \in 1..Len(trades) :
        i # j => trades[i].trade_id # trades[j].trade_id

\* C39: after every accepted buy or partial sell the position of the order has
\* current_value = quantity * current_price, the value calculate_position_size
\* sums and the largest-position statistic compares.
C39_CurrentValueFollowsQuantity ==
    (/\ call.op \in {"buy", "sell"}
     /\ ret = "Trade"
     /\ call.symbol \in DOMAIN positions)
        => LET position == positions[call.symbol]
           IN  position.current_value = position.quantity * position.current_price

====
